---- MODULE Spec2Model ----
(***************************************************************************)
(* A model of the localhost-tunneling repository.                          *)
(*                                                                         *)
(* The repository holds several iterations of one tunnel.  Each iteration  *)
(* is a program of its own, with its own package-level state, so each gets *)
(* its own group of variables and its own specification:                   *)
(*                                                                         *)
(*   Spec           the port-registry WebSocket server                     *)
(*                  (server/server.go) and the clients that dial it        *)
(*   FairSpec       Spec, with the scheduling of the server's goroutines   *)
(*   SpecClient     the same server with the reconnecting WebSocket client *)
(*                  (client/ws/connection.go, the client tunnel handler's  *)
(*                  Start, the client's main)                              *)
(*   SpecReconnect  SpecClient with one other client beside                *)
(*   SpecHandler    the registry of package tunnel                         *)
(*                  (server/tunnel/handler.go) under a caller of its API   *)
(*   SpecCeiling    SpecHandler, started with nextPort at the highest port *)
(*   SpecMux        the multiplexed tunnel (main.go) with several tunnel   *)
(*                  connections                                            *)
(*   SpecStreams    the multiplexed tunnel with one tunnel connection and  *)
(*                  several visitors' requests                             *)
(*   FairStreams    SpecStreams, with the scheduling of the goroutines     *)
(*   SpecEarly      SpecStreams with the proxy handler of the earlier      *)
(*                  iteration (unnamed/part_003)                           *)
(*   FairEarly      SpecEarly, with the scheduling of the goroutines       *)
(*   SpecRead       the transport adapter wsConn (main.go)                 *)
(*   SpecRelay      the relay of one visitor connection between the        *)
(*                  port-registry server (startPortListener) and the       *)
(*                  client tunnel handler (handleMessage)                  *)
(*   FairRelay      SpecRelay, with the scheduling of the goroutines       *)
(*   SpecProbe      the liveness probing of one established session        *)
(*   FairProbe      SpecProbe, with the passing of time and the scheduling *)
(*                  of the goroutines                                      *)
(*   SpecShared     one tunnel connection shared by the visitors of one    *)
(*                  port listener (startPortListener, the ping goroutine,  *)
(*                  the client tunnel handler)                             *)
(*   FairShared     SpecShared, with the scheduling of the goroutines      *)
(*   SpecControl    the first bytes of the TCP control connection          *)
(*                  (handleClient of the yamux server, client/client.go)   *)
(*   SpecKeep       the main loop of the WebSocket client's main           *)
(*                  (client/client.go) with its reader and ping goroutines *)
(*   SpecSess       the registry of package tunnel under the handlers of   *)
(*                  several sessions, each in its own goroutine            *)
(*   SpecStop       one tunnel Handler of the server: Start, readMessages  *)
(*                  and a caller of Close                                  *)
(*   FairStop       SpecStop, with the scheduling of the goroutines        *)
(*                                                                         *)
(* A variable group that a specification does not drive keeps its initial  *)
(* value there.                                                            *)
(***************************************************************************)
EXTENDS Integers, Sequences, FiniteSets, TLC

(***************************************************************************)
(* Bounds of the model and constants of the program.                       *)
(***************************************************************************)

\* connections other clients open to the port-registry server during a run (one
\* handleTunnel each)
NumConns == 2

\* connections the reconnecting client opens during a run
ClientConns == 2

\* failures of the environment during a run: a failed read or write on an open
\* connection, a failed upgrade, a failed call of Caddy's admin endpoint, a port that
\* cannot be listened on
MaxFaults == 2

\* var nextPort = 10000
PortFloor == 10000

\* Reconnect: for i := 0; i < 5; i++
MaxAttempts == 5

\* the highest TCP port: net.Listen("tcp", fmt.Sprintf(":%d", port)) fails above it
PortMax == 65535

\* the value of the DOMAIN environment variable, as a sequence of characters
Domain == <<"d">>

(***************************************************************************)
(* Go builtins and library functions the code calls.                       *)
(***************************************************************************)

\* m[k] = v on a Go map
MapPut(m, k, v) == [x \in (DOMAIN m) \cup {k} |-> IF x = k THEN v ELSE m[x]]

\* delete(m, k) on a Go map: no-op when k is absent
MapDelete(m, k) == [x \in (DOMAIN m) \ {k} |-> m[x]]

EmptyMap == [x \in {} |-> 0]

RECURSIVE ScanIn(_, _)
\* AssignPort's scan: port := next; for activePorts[port] { port++ }
ScanIn(active, port) == IF port \in active THEN ScanIn(active, port + 1) ELSE port

DigitChar(d) == <<"0", "1", "2", "3", "4", "5", "6", "7", "8", "9">>[d + 1]

\* the %d verb of fmt.Sprintf for a non-negative int
RECURSIVE Itoa(_)
Itoa(n) == IF n < 10 THEN <<DigitChar(n)>>
           ELSE Itoa(n \div 10) \o <<DigitChar(n % 10)>>

\* fmt.Sprintf("%d.%s", serverPort, os.Getenv("DOMAIN"))
Subdomain(port) == Itoa(port) \o <<".">> \o Domain

\* 1 << uint(i)
RECURSIVE Shl1(_)
Shl1(i) == IF i = 0 THEN 1 ELSE 2 * Shl1(i - 1)

Min(S) == CHOOSE x \in S : \A y \in S : x <= y

(***************************************************************************)
(* State of the port-registry server (server/server.go).                   *)
(***************************************************************************)
VARIABLES
    nextPort,     \* var nextPort
    activePorts,  \* var activePorts, as the set of ports mapped to true
    hostMap,      \* var hostMap: subdomain -> port
    portMutex,    \* the handler holding portMutex, 0 when unlocked
    writing,      \* handlers inside the unsynchronised write hostMap[subdomain] = serverPort
    crashed,      \* the Go runtime ended the process (fatal error: concurrent map access)
    pc,           \* each handleTunnel's position
    serverPort,   \* each handleTunnel's local serverPort, 0 before the assignment
    peer,         \* who opens each connection: "client" (the client followed) or "other"
    inbox,        \* the peer's local-port message has arrived at the handler
    outbox,       \* the subdomain the handler wrote to its connection, <<>> before
    ctxDone,      \* connCtx of the handler is cancelled
    listener,     \* the startPortListener goroutine: "none", "starting", "listening", "failed"
    faults        \* failures of the environment so far

regVars == <<nextPort, activePorts, hostMap, portMutex, writing, crashed>>

serverVars == <<regVars, pc, serverPort, peer, inbox, outbox, ctxDone, listener, faults>>

\* the connections of the run, one handleTunnel each
Handlers == DOMAIN pc

(***************************************************************************)
(* State of the reconnecting client (client/ws/connection.go, the client   *)
(* tunnel handler and the client's main).                                  *)
(***************************************************************************)
VARIABLES
    cpc,          \* the client's position
    cmode,        \* "initial" (main's first connect) or "reconnect" (Connection.Reconnect)
    attempt,      \* Reconnect's loop variable i
    cerr,         \* err is non-nil
    waits,        \* the waits Reconnect has slept, in seconds, in order
    cconn,        \* the handler at the other end of c.conn, 0 when c.conn is nil
    cdomain,      \* the public domain the last handshake announced, <<>> before
    olddomain     \* the public domain of the session that was dropped, <<>> before

clientVars == <<cpc, cmode, attempt, cerr, waits, cconn, cdomain, olddomain>>

vars == <<serverVars, clientVars>>

(***************************************************************************)
(* State of the registry of package tunnel (server/tunnel/handler.go) and  *)
(* of the connections of its handlers (server/ws).                         *)
(***************************************************************************)
VARIABLES
    tNextPort,     \* var nextPort of package tunnel
    tActivePorts,  \* var activePorts of package tunnel, as the set of ports mapped to true
    tHostMap,      \* var hostMap of package tunnel
    tPort,         \* Connection.port of each handler's wsConn, 0 when unset
    tDomain,       \* Connection.domain of each handler's wsConn, <<>> when unset
    tLast,         \* the last call made: its name, and what it releases if it is a release
    tRepeated,     \* the last call is a release that repeats the call before it
    tErr           \* the error the last call returned: "nil", or "none" when it has no result

tunnelRegistry == <<tNextPort, tActivePorts, tHostMap>>

tunnelVars ==
    <<tNextPort, tActivePorts, tHostMap, tPort, tDomain, tLast, tRepeated, tErr>>

(***************************************************************************)
(* State of the multiplexed tunnel (main.go).                              *)
(***************************************************************************)
VARIABLES
    mSessions,  \* sessions: id -> the yamux session registered under it
    mPc,        \* each /tunnel handler's position
    mId,        \* each /tunnel handler's id, <<>> before randString
    mLive,      \* each yamux session: "none", "open", "closed"
    mCli,       \* each runClient's position
    mInfo,      \* each runClient's info.ID, <<>> before the handshake is read
    xSess,      \* the session each visitor's stream was opened on, 0 before
    xSrv,       \* each proxy handler's position
    xCli,       \* the client's end of each stream
    xResp,      \* chunks of the response relayed on each stream
    mFaults     \* failures of the environment so far

muxVars == <<mSessions, mPc, mId, mLive, mCli, mInfo, xSess, xSrv, xCli, xResp, mFaults>>

(***************************************************************************)
(* State of the transport adapter (main.go, wsConn).                       *)
(***************************************************************************)
VARIABLES
    rSending,   \* the messages the peer has still to send
    rFrames,    \* the messages that have arrived and that NextReader has not returned
    rReadBuf,   \* c.readBuf
    rOut,       \* the bytes Read has returned so far, in order
    rRet,       \* what the last Read returned: <<n, err>>
    rTotal,     \* the number of bytes in the binary messages of the run
    rSplit      \* a Read has returned with bytes of its message left in c.readBuf

readVars == <<rSending, rFrames, rReadBuf, rOut, rRet, rTotal, rSplit>>

(***************************************************************************)
(* State of one visitor's relay over an established session of the         *)
(* port-registry server (server.go, startPortListener) and the client's    *)
(* tunnel handler (main.go, package tunnel).                               *)
(***************************************************************************)
VARIABLES
    vLen,      \* the number of bytes the visitor sends, numbered 1..vLen in sending order
    vIn,       \* the bytes the visitor has written that the server has not read yet
    vUp,       \* the binary messages on the WebSocket connection, server to client
    vLocal,    \* the bytes written to the local service so far
    vDown,     \* the binary messages on the WebSocket connection, client to server
    vOut,      \* the bytes written to the visitor so far
    vWs,       \* the WebSocket connection: "open" or "closed"
    vA,        \* the goroutine of the visitor's connection that reads it: "reading", "done"
    vB,        \* the goroutine that reads the WebSocket connection: "reading", "done"
    vDialFailed,  \* the client's dial to the local service has failed for a message
    vFaults    \* failures of the environment so far

relayVars == <<vLen, vIn, vUp, vLocal, vDown, vOut, vWs, vA, vB, vDialFailed, vFaults>>

(***************************************************************************)
(* State of the liveness probing of one established session of the         *)
(* port-registry server (server.go, handleTunnel) with its client          *)
(* (client.go, or the client of client/ws with its main).                  *)
(***************************************************************************)
VARIABLES
    pKind,       \* the client of the session: "main" (client.go) or "StartPingTicker"
    pStarted,    \* for each end, its prober has been started
    pTicker,     \* for each end, the time.Ticker of its prober: "none", "running", "stopped"
    pTick,       \* for each end, a tick waits in the ticker's channel
    pDue,        \* for each end, 30 seconds have passed since the start of its prober or
                 \* since its last ping, and the ping of that tick is not written yet
    pCancelled,  \* for each end, the context of its prober is cancelled
    pPing,       \* for each end, a ping has arrived there and is not answered yet
    pConn,       \* the WebSocket connection: "open" or "closed"
    pPeer,       \* the client process: "running", or "silent" when it has stopped answering
    pSrv,        \* handleTunnel: "Wait" (at <-connCtx.Done()) or "Returned"
    pVisitor,    \* a visitor's connection is accepted and its goroutine reads the connection
    pFaults      \* failures of the environment so far

probeVars ==
    <<pKind, pStarted, pTicker, pTick, pDue, pCancelled, pPing, pConn, pPeer, pSrv,
      pVisitor, pFaults>>

(***************************************************************************)
(* State of one session of the port-registry server (server.go) whose port *)
(* several visitors connect to, with the client tunnel handler at the      *)
(* other end: every visitor's goroutines share the one WebSocket           *)
(* connection.                                                             *)
(***************************************************************************)
VARIABLES
    wMute,     \* the visitors whose request the local service never answers
    wVisitor,  \* each visitor's connection at the server: "none", "open", "closed"
    wIn,       \* each visitor's bytes that have arrived and are not read yet (0 or 1 chunk)
    wSent,     \* chunks each visitor has sent so far
    wInside,   \* the writers that are inside conn.WriteMessage
    wUp,       \* data messages on their way to the client, each the visitor it is from
    wCli,      \* the visitor whose message handleMessage is handling, 0 in Start's select
    wDown,     \* frames on their way to the server: <<"binary", v>> answers visitor v
    wGot,      \* for each visitor, the visitors whose answers were written to its connection
    wPing,     \* a ping of the client has arrived at the server and is not read yet
    wTick,     \* a tick waits in pingTicker.C
    wEnv,      \* how many pings, ticks and text frames the environment has produced
    wWs,       \* the WebSocket connection: "open" or "closed"
    wPanic,    \* the process ended: panic "concurrent write to websocket connection"
    wTorn      \* two frames were written into each other on the connection

sharedVars ==
    <<wMute, wVisitor, wIn, wSent, wInside, wUp, wCli, wDown, wGot, wPing, wTick, wEnv,
      wWs, wPanic, wTorn>>

(***************************************************************************)
(* State of one connection to the TCP control-channel server               *)
(* (unnamed/part_001, handleClient) from its client (client/client.go).    *)
(***************************************************************************)
VARIABLES
    yCli,        \* the client's position in main
    ySrv,        \* handleClient's position
    yWire,       \* the bytes the client has written that no read has returned yet
    yHandshake,  \* the bytes conn.Read(buf) of handleClient returned, <<>> before
    yMux,        \* the bytes the reads of the yamux session's receive loop returned
    ySent        \* yamux bytes the client has written so far

controlVars == <<yCli, ySrv, yWire, yHandshake, yMux, ySent>>

(***************************************************************************)
(* State of the edge router beside the port-registry server: the routes    *)
(* that configureCaddy has posted to Caddy's admin endpoint.               *)
(***************************************************************************)
VARIABLES
    routes      \* the "@id" of every route in srv0/routes that a tunnel server posted

caddyVars == <<routes>>

(***************************************************************************)
(* State of the single-connection WebSocket client (main of                *)
(* client/client.go) after its first connection: the main loop, the reader *)
(* goroutines and the ping goroutine.                                      *)
(***************************************************************************)
VARIABLES
    kMain,      \* main's position: "select", "reconnect", "returned", "fatal"
    kI,         \* the reconnect loop's i
    kConn,      \* the variable conn: the number of the connection it refers to
    kOpen,      \* the connections that are open
    kReader,    \* for each connection, the reader goroutine started with it
    kPinger,    \* the ping goroutine: "running" or "done"
    kTick,      \* a tick waits in pingTicker.C
    kTicks,     \* the ticks of pingTicker so far
    kCtxDone,   \* connCtx is cancelled
    kCancelBy,  \* the connection on which the ping write failed, 0 when none has
    kServed     \* main has handled a message since conn was last assigned

keepVars ==
    <<kMain, kI, kConn, kOpen, kReader, kPinger, kTick, kTicks, kCtxDone, kCancelBy, kServed>>

(***************************************************************************)
(* State of the registry of package tunnel (server/tunnel/handler.go) when *)
(* the handlers of several sessions use it, each from its own goroutine.   *)
(***************************************************************************)
VARIABLES
    gNextPort,     \* var nextPort
    gActivePorts,  \* var activePorts, as the set of ports mapped to true
    gHostMap,      \* var hostMap
    gPc,           \* each session's position in the life of its Handler
    gPort,         \* the port of each handler's wsConn, 0 when not set
    gDomain,       \* the domain of each handler's wsConn, <<>> when not set
    gWriting,      \* the sessions inside an unsynchronised write of hostMap
    gCrashed       \* the Go runtime ended the process (fatal error: concurrent map writes)

sessVars ==
    <<gNextPort, gActivePorts, gHostMap, gPc, gPort, gDomain, gWriting, gCrashed>>

(***************************************************************************)
(* State of one tunnel Handler of the server (server/tunnel/handler.go):   *)
(* Start, its readMessages goroutine and a caller of Close.                *)
(***************************************************************************)
VARIABLES
    hStart,    \* Start's position: "select", "returned"
    hReader,   \* readMessages' position: "check", "reading", "sendMsg", "sendErr", "done"
    hCtxDone,  \* h.ctx is cancelled
    hWs,       \* h.wsConn: "open", "broken" (the peer is gone), "closed" (wsConn.Close ran)
    hWire,     \* frames the peer has sent that ReadMessage has not returned yet
    hSent,     \* frames the peer has sent so far
    hHandled,  \* messages handleMessage has been given
    hCloser    \* a caller of Close outside Start: "idle", "cancelled", "done"

stopVars == <<hStart, hReader, hCtxDone, hWs, hWire, hSent, hHandled, hCloser>>

allVars ==
    <<vars, tunnelVars, muxVars, readVars, relayVars, probeVars, sharedVars, controlVars,
      caddyVars, keepVars, sessVars, stopVars>>

\* what a step of one program leaves alone: the state of the other programs
outsideServer ==
    <<tunnelVars, muxVars, readVars, relayVars, probeVars, sharedVars, controlVars, caddyVars,
      keepVars, sessVars, stopVars>>

outsideTunnel ==
    <<vars, muxVars, readVars, relayVars, probeVars, sharedVars, controlVars, caddyVars,
      keepVars, sessVars, stopVars>>

outsideMux ==
    <<vars, tunnelVars, readVars, relayVars, probeVars, sharedVars, controlVars, caddyVars,
      keepVars, sessVars, stopVars>>

outsideRead ==
    <<vars, tunnelVars, muxVars, relayVars, probeVars, sharedVars, controlVars, caddyVars,
      keepVars, sessVars, stopVars>>

outsideRelay ==
    <<vars, tunnelVars, muxVars, readVars, probeVars, sharedVars, controlVars, caddyVars,
      keepVars, sessVars, stopVars>>

outsideProbe ==
    <<vars, tunnelVars, muxVars, readVars, relayVars, sharedVars, controlVars, caddyVars,
      keepVars, sessVars, stopVars>>

outsideShared ==
    <<vars, tunnelVars, muxVars, readVars, relayVars, probeVars, controlVars, caddyVars,
      keepVars, sessVars, stopVars>>

outsideControl ==
    <<vars, tunnelVars, muxVars, readVars, relayVars, probeVars, sharedVars, caddyVars,
      keepVars, sessVars, stopVars>>

\* what a step of the port-registry server that posts a route leaves alone
outsideServerRoutes ==
    <<tunnelVars, muxVars, readVars, relayVars, probeVars, sharedVars, controlVars,
      keepVars, sessVars, stopVars>>

outsideKeep ==
    <<vars, tunnelVars, muxVars, readVars, relayVars, probeVars, sharedVars, controlVars,
      caddyVars, sessVars, stopVars>>

outsideStop ==
    <<vars, tunnelVars, muxVars, readVars, relayVars, probeVars, sharedVars, controlVars,
      caddyVars, keepVars, sessVars>>

outsideSess ==
    <<vars, tunnelVars, muxVars, readVars, relayVars, probeVars, sharedVars, controlVars,
      caddyVars, keepVars, stopVars>>

\* the server after its main has started, before the connections of dialers are made
InitServer(dialers) ==
    /\ nextPort = PortFloor
    /\ activePorts = {}
    /\ hostMap = EmptyMap
    /\ portMutex = 0
    /\ writing = {}
    /\ crashed = FALSE
    /\ pc = [h \in DOMAIN dialers |-> "Idle"]
    /\ serverPort = [h \in DOMAIN dialers |-> 0]
    /\ peer = dialers
    /\ inbox = [h \in DOMAIN dialers |-> FALSE]
    /\ outbox = [h \in DOMAIN dialers |-> <<>>]
    /\ ctxDone = [h \in DOMAIN dialers |-> FALSE]
    /\ listener = [h \in DOMAIN dialers |-> "none"]
    /\ faults = 0

InitClient ==
    /\ cpc = "Connect"
    /\ cmode = "initial"
    /\ attempt = 0
    /\ cerr = FALSE
    /\ waits = <<>>
    /\ cconn = 0
    /\ cdomain = <<>>
    /\ olddomain = <<>>

(***************************************************************************)
(* The port-registry server: handleTunnel, one per accepted connection.    *)
(* A transport failure is not a state of its own: a read or a write on the *)
(* connection may fail whenever it is made.                                *)
(***************************************************************************)

\* positions of a handleTunnel that has returned
Returned == {"RetUpgrade", "RetRead", "RetSend", "RetCaddy", "RetClosed"}

\* positions after activePorts[serverPort] = true
AfterCommit == {"HostMap", "HostMapW", "Send", "Caddy", "Listen", "Wait",
                "RetSend", "RetCaddy", "RetClosed"}

\* positions after the write of hostMap has begun
AfterHostMapBegin == AfterCommit \ {"HostMap"}

\* the server's end of the connection of handler h is open (conn.Close() is deferred)
ConnOpen(h) == ~crashed /\ pc[h] \notin Returned \cup {"Idle"}

\* h is the next connection its dialer opens
FreeSlot(h) ==
    /\ pc[h] = "Idle"
    /\ \A g \in Handlers : g < h /\ peer[g] = peer[h] => pc[g] # "Idle"

\* an environment failure happens, within the bound
Fault == faults < MaxFaults /\ faults' = faults + 1

\* upgrader.Upgrade succeeds; the ping goroutine starts; handleTunnel waits for the port
Accept(h, who) ==
    /\ ~crashed
    /\ peer[h] = who
    /\ FreeSlot(h)
    /\ pc' = [pc EXCEPT ![h] = "ReadPort"]

\* return after conn exists: the deferred cancel() and conn.Close() run
Return(h, label) ==
    /\ pc' = [pc EXCEPT ![h] = label]
    /\ ctxDone' = [ctxDone EXCEPT ![h] = TRUE]

\* upgrader.Upgrade fails: handleTunnel returns before it has a connection
UpgradeFail(h) ==
    /\ Fault
    /\ ~crashed
    /\ FreeSlot(h)
    /\ pc' = [pc EXCEPT ![h] = "RetUpgrade"]
    /\ UNCHANGED <<regVars, serverPort, peer, inbox, outbox, ctxDone, listener>>
    /\ UNCHANGED clientVars
    /\ UNCHANGED outsideServer

\* another client dials /tunnel
OtherDial(h) ==
    /\ UNCHANGED faults
    /\ Accept(h, "other")
    /\ UNCHANGED <<regVars, serverPort, peer, inbox, outbox, ctxDone, listener>>
    /\ UNCHANGED clientVars
    /\ UNCHANGED outsideServer

\* another client sends its local port
OtherSendPort(h) ==
    /\ UNCHANGED faults
    /\ peer[h] = "other"
    /\ ConnOpen(h)
    /\ ~inbox[h]
    /\ inbox' = [inbox EXCEPT ![h] = TRUE]
    /\ UNCHANGED <<regVars, pc, serverPort, peer, outbox, ctxDone, listener>>
    /\ UNCHANGED clientVars
    /\ UNCHANGED outsideServer

\* conn.ReadMessage() returns the client's local port
ReadPort(h) ==
    /\ UNCHANGED faults
    /\ ~crashed
    /\ pc[h] = "ReadPort"
    /\ inbox[h]
    /\ pc' = [pc EXCEPT ![h] = "Lock"]
    /\ UNCHANGED <<regVars, serverPort, peer, inbox, outbox, ctxDone, listener>>
    /\ UNCHANGED clientVars
    /\ UNCHANGED outsideServer

\* conn.ReadMessage() fails and the allocation is made all the same
ReadPortFailAllocates(h) ==
    /\ Fault
    /\ ~crashed
    /\ pc[h] = "ReadPort"
    /\ ~inbox[h]
    /\ Return(h, "RetRead")
    /\ activePorts' = activePorts \cup {nextPort}
    /\ nextPort' = nextPort + 1
    /\ UNCHANGED <<hostMap, portMutex, writing, crashed,
                   serverPort, peer, inbox, outbox, listener>>
    /\ UNCHANGED clientVars
    /\ UNCHANGED outsideServer

\* conn.ReadMessage() fails (the peer went away before it sent its port): return
ReadPortFail(h) ==
    /\ Fault
    /\ ~crashed
    /\ pc[h] = "ReadPort"
    /\ ~inbox[h]
    /\ Return(h, "RetRead")
    /\ UNCHANGED <<regVars, serverPort, peer, inbox, outbox, listener>>
    /\ UNCHANGED clientVars
    /\ UNCHANGED outsideServer

\* serverPort := nextPort; for activePorts[serverPort] { serverPort++ }
RECURSIVE ScanFrom(_)
ScanFrom(port) == IF port \in activePorts THEN ScanFrom(port + 1) ELSE port

\* portMutex.Lock() that does not exclude
AllocLockNoMutex(h) ==
    /\ UNCHANGED faults
    /\ ~crashed
    /\ pc[h] = "Lock"
    /\ portMutex' = h
    /\ serverPort' = [serverPort EXCEPT ![h] = ScanFrom(nextPort)]
    /\ pc' = [pc EXCEPT ![h] = "Commit"]
    /\ UNCHANGED <<nextPort, activePorts, hostMap, writing, crashed,
                   peer, inbox, outbox, ctxDone, listener>>
    /\ UNCHANGED clientVars
    /\ UNCHANGED outsideServer

\* portMutex.Lock(); the scan for a free port
AllocLock(h) ==
    /\ UNCHANGED faults
    /\ ~crashed
    /\ pc[h] = "Lock"
    /\ portMutex = 0
    /\ portMutex' = h
    /\ serverPort' = [serverPort EXCEPT ![h] = ScanFrom(nextPort)]
    /\ pc' = [pc EXCEPT ![h] = "Commit"]
    /\ UNCHANGED <<nextPort, activePorts, hostMap, writing, crashed,
                   peer, inbox, outbox, ctxDone, listener>>
    /\ UNCHANGED clientVars
    /\ UNCHANGED outsideServer

\* the marking step of handleTunnel without its portMutex.Unlock()
AllocCommitKeepingLock(h) ==
    /\ UNCHANGED faults
    /\ ~crashed
    /\ pc[h] = "Commit"
    /\ nextPort' = serverPort[h] + 1
    /\ activePorts' = activePorts \cup {serverPort[h]}
    /\ pc' = [pc EXCEPT ![h] = "HostMap"]
    /\ UNCHANGED <<hostMap, portMutex, writing, crashed, serverPort,
                   peer, inbox, outbox, ctxDone, listener>>
    /\ UNCHANGED clientVars
    /\ UNCHANGED outsideServer

\* nextPort = serverPort + 1; activePorts[serverPort] = true; portMutex.Unlock()
AllocCommit(h) ==
    /\ UNCHANGED faults
    /\ ~crashed
    /\ pc[h] = "Commit"
    /\ nextPort' = serverPort[h] + 1
    /\ activePorts' = activePorts \cup {serverPort[h]}
    /\ portMutex' = 0
    /\ pc' = [pc EXCEPT ![h] = "HostMap"]
    /\ UNCHANGED <<hostMap, writing, crashed, serverPort,
                   peer, inbox, outbox, ctxDone, listener>>
    /\ UNCHANGED clientVars
    /\ UNCHANGED outsideServer

\* hostMap[subdomain] = serverPort begins; the map is written without a lock
HostMapBegin(h) ==
    /\ UNCHANGED faults
    /\ ~crashed
    /\ pc[h] = "HostMap"
    /\ writing' = writing \cup {h}
    /\ pc' = [pc EXCEPT ![h] = "HostMapW"]
    /\ UNCHANGED <<nextPort, activePorts, hostMap, portMutex, crashed, serverPort,
                   peer, inbox, outbox, ctxDone, listener>>
    /\ UNCHANGED clientVars
    /\ UNCHANGED outsideServer

(***************************************************************************)
(* hostMap[subdomain] = serverPort ends.  Alone in the map, the write      *)
(* stores the entry.  Overlapping another handler's write it is a data     *)
(* race on a Go map, whose outcomes are: the runtime's check ends the      *)
(* process (fatal error: concurrent map writes); or the check misses and   *)
(* both writers fill the same free slot of the bucket, so that this entry  *)
(* is stored, is lost, or holds this key with the other writer's value     *)
(* (mapassign returns the slot and the caller stores the value after the   *)
(* runtime's check).                                                       *)
(***************************************************************************)
HostMapEnd(h) ==
    /\ UNCHANGED faults
    /\ ~crashed
    /\ pc[h] = "HostMapW"
    /\ writing' = writing \ {h}
    /\ pc' = [pc EXCEPT ![h] = "Send"]
    /\ \/ /\ hostMap' = MapPut(hostMap, Subdomain(serverPort[h]), serverPort[h])
          /\ crashed' = crashed
       \/ /\ writing \ {h} # {}
          /\ \/ crashed' = TRUE /\ hostMap' = hostMap
             \/ crashed' = crashed /\ hostMap' = hostMap
             \/ /\ crashed' = crashed
                /\ \E o \in writing \ {h} :
                     hostMap' = MapPut(hostMap, Subdomain(serverPort[h]), serverPort[o])
    /\ UNCHANGED <<nextPort, activePorts, portMutex, serverPort,
                   peer, inbox, outbox, ctxDone, listener>>
    /\ UNCHANGED clientVars
    /\ UNCHANGED outsideServer

\* handleTunnel that announces the port the next client will get
SendDomainOfNextPort(h) ==
    /\ UNCHANGED faults
    /\ ~crashed
    /\ pc[h] = "Send"
    /\ outbox' = [outbox EXCEPT ![h] = Subdomain(nextPort)]
    /\ pc' = [pc EXCEPT ![h] = "Caddy"]
    /\ UNCHANGED <<regVars, serverPort, peer, inbox, ctxDone, listener>>
    /\ UNCHANGED clientVars
    /\ UNCHANGED outsideServer

\* conn.WriteMessage(TextMessage, subdomain) succeeds
SendDomain(h) ==
    /\ UNCHANGED faults
    /\ ~crashed
    /\ pc[h] = "Send"
    /\ outbox' = [outbox EXCEPT ![h] = Subdomain(serverPort[h])]
    /\ pc' = [pc EXCEPT ![h] = "Caddy"]
    /\ UNCHANGED <<regVars, serverPort, peer, inbox, ctxDone, listener>>
    /\ UNCHANGED clientVars
    /\ UNCHANGED outsideServer

\* conn.WriteMessage(TextMessage, subdomain) fails: return
SendDomainFail(h) ==
    /\ Fault
    /\ ~crashed
    /\ pc[h] = "Send"
    /\ Return(h, "RetSend")
    /\ UNCHANGED <<regVars, serverPort, peer, inbox, outbox, listener>>
    /\ UNCHANGED clientVars
    /\ UNCHANGED outsideServer

\* configureCaddy returns nil
ConfigureCaddy(h) ==
    /\ UNCHANGED faults
    /\ ~crashed
    /\ pc[h] = "Caddy"
    /\ routes' = routes \cup {Subdomain(serverPort[h])}
    /\ pc' = [pc EXCEPT ![h] = "Listen"]
    /\ UNCHANGED <<regVars, serverPort, peer, inbox, outbox, ctxDone, listener>>
    /\ UNCHANGED clientVars
    /\ UNCHANGED outsideServerRoutes

\* configureCaddy returns an error (the admin endpoint does not answer): return
ConfigureCaddyFail(h) ==
    /\ Fault
    /\ ~crashed
    /\ pc[h] = "Caddy"
    /\ Return(h, "RetCaddy")
    /\ UNCHANGED <<regVars, serverPort, peer, inbox, outbox, listener>>
    /\ UNCHANGED clientVars
    /\ UNCHANGED outsideServer

\* go startPortListener(serverPort, conn)
StartListener(h) ==
    /\ UNCHANGED faults
    /\ ~crashed
    /\ pc[h] = "Listen"
    /\ listener' = [listener EXCEPT ![h] = "starting"]
    /\ pc' = [pc EXCEPT ![h] = "Wait"]
    /\ UNCHANGED <<regVars, serverPort, peer, inbox, outbox, ctxDone>>
    /\ UNCHANGED clientVars
    /\ UNCHANGED outsideServer

\* startPortListener: net.Listen succeeds; the goroutine accepts visitors from now on
PortListen(h) ==
    /\ UNCHANGED faults
    /\ ~crashed
    /\ listener[h] = "starting"
    /\ listener' = [listener EXCEPT ![h] = "listening"]
    /\ UNCHANGED <<regVars, pc, serverPort, peer, inbox, outbox, ctxDone>>
    /\ UNCHANGED clientVars
    /\ UNCHANGED outsideServer

\* startPortListener: net.Listen fails; the goroutine logs and returns
PortListenFail(h) ==
    /\ Fault
    /\ ~crashed
    /\ listener[h] = "starting"
    /\ listener' = [listener EXCEPT ![h] = "failed"]
    /\ UNCHANGED <<regVars, pc, serverPort, peer, inbox, outbox, ctxDone>>
    /\ UNCHANGED clientVars
    /\ UNCHANGED outsideServer

\* the ping goroutine: WriteMessage(PingMessage) fails at a tick, cancel()
PingFail(h) ==
    /\ Fault
    /\ ~crashed
    /\ pc[h] = "Wait"
    /\ ~ctxDone[h]
    /\ ctxDone' = [ctxDone EXCEPT ![h] = TRUE]
    /\ UNCHANGED <<regVars, pc, serverPort, peer, inbox, outbox, listener>>
    /\ UNCHANGED clientVars
    /\ UNCHANGED outsideServer

\* <-connCtx.Done(): handleTunnel returns
WaitDone(h) ==
    /\ UNCHANGED faults
    /\ ~crashed
    /\ pc[h] = "Wait"
    /\ ctxDone[h]
    /\ Return(h, "RetClosed")
    /\ UNCHANGED <<regVars, serverPort, peer, inbox, outbox, listener>>
    /\ UNCHANGED clientVars
    /\ UNCHANGED outsideServer

\* the identities a visitor asks for
Hosts == {Subdomain(p) : p \in PortFloor..(PortFloor + Cardinality(Handlers) - 1)}

\* the handler whose port listener accepts a connection to localhost:port, 0 when none
ListenerAt(port) ==
    IF \E h \in Handlers : listener[h] = "listening" /\ serverPort[h] = port
      THEN CHOOSE h \in Handlers : listener[h] = "listening" /\ serverPort[h] = port
      ELSE 0

\* the handler whose connection a visitor's request to host x is relayed on by
\* handleHTTPRequest (hostMap, then localhost:port, then the port listener), 0 when
\* the request is answered with an error
Forward(x) ==
    IF x \in DOMAIN hostMap
      THEN LET l == ListenerAt(hostMap[x])
           IN  IF l # 0 /\ ConnOpen(l) THEN l ELSE 0
      ELSE 0

(***************************************************************************)
(* handleHTTPRequest for a visitor's request to host x.  It reads hostMap  *)
(* without a lock and changes no state of the server.  A read that         *)
(* overlaps a handler's write of hostMap is a data race: the runtime may   *)
(* end the process (fatal error: concurrent map read and map write).       *)
(***************************************************************************)
HandleHTTPRequest(x) ==
    /\ UNCHANGED faults
    /\ ~crashed
    /\ \/ crashed' = crashed
       \/ writing # {} /\ crashed' = TRUE
    /\ UNCHANGED <<nextPort, activePorts, hostMap, portMutex, writing, pc,
                   serverPort, peer, inbox, outbox, ctxDone, listener>>
    /\ UNCHANGED clientVars
    /\ UNCHANGED outsideServer

(***************************************************************************)
(* The reconnecting client.  Its main connects once (Connect,              *)
(* SendLocalPort, WaitForDomain, each fatal on failure) and runs the       *)
(* tunnel handler's Start, whose loop calls Connection.Reconnect when the  *)
(* reader goroutine reports an error.                                      *)
(***************************************************************************)

\* waitTime in seconds, growing by one second an attempt
WaitTimeLinear(i) == i + 1

\* waitTime := time.Duration(1<<uint(i)) * time.Second, in seconds
WaitTime(i) == Shl1(i)

\* a step of the handshake failed: main ends the process, Reconnect's loop goes on to
\* its sleep with err set
HandshakeFailed ==
    /\ cerr' = TRUE
    /\ cpc' = IF cmode = "initial" THEN "FatalStartup" ELSE "Backoff"

\* Connect: dialer.Dial succeeds, the server has upgraded the connection
Connect(h) ==
    /\ UNCHANGED faults
    /\ cpc = "Connect"
    /\ Accept(h, "client")
    /\ cconn' = h
    /\ cpc' = "SendLocalPort"
    /\ cerr' = FALSE
    /\ UNCHANGED <<regVars, serverPort, peer, inbox, outbox, ctxDone, listener>>
    /\ UNCHANGED <<cmode, attempt, waits, cdomain, olddomain>>
    /\ UNCHANGED outsideServer

\* Connect: dialer.Dial fails
ConnectFail ==
    /\ cpc = "Connect"
    /\ HandshakeFailed
    /\ UNCHANGED serverVars
    /\ UNCHANGED <<cmode, attempt, waits, cconn, cdomain, olddomain>>
    /\ UNCHANGED outsideServer

\* SendLocalPort: WriteMessage(TextMessage, localPort) succeeds
SendLocalPort ==
    /\ UNCHANGED faults
    /\ cpc = "SendLocalPort"
    /\ ConnOpen(cconn)
    /\ inbox' = [inbox EXCEPT ![cconn] = TRUE]
    /\ cpc' = "WaitForDomain"
    /\ UNCHANGED <<regVars, pc, serverPort, peer, outbox, ctxDone, listener>>
    /\ UNCHANGED <<cmode, attempt, cerr, waits, cconn, cdomain, olddomain>>
    /\ UNCHANGED outsideServer

\* SendLocalPort: WriteMessage fails
SendLocalPortFail ==
    /\ Fault
    /\ cpc = "SendLocalPort"
    /\ HandshakeFailed
    /\ UNCHANGED <<regVars, pc, serverPort, peer, inbox, outbox, ctxDone, listener>>
    /\ UNCHANGED <<cmode, attempt, waits, cconn, cdomain, olddomain>>
    /\ UNCHANGED outsideServer

\* WaitForDomain: ReadMessage returns the text message with the public domain
WaitForDomain ==
    /\ cpc = "WaitForDomain"
    /\ outbox[cconn] # <<>>
    /\ cdomain' = outbox[cconn]
    /\ cerr' = FALSE
    /\ cpc' = IF cmode = "initial" THEN "Run" ELSE "Returned"
    /\ UNCHANGED serverVars
    /\ UNCHANGED <<cmode, attempt, waits, cconn, olddomain>>
    /\ UNCHANGED outsideServer

\* WaitForDomain: ReadMessage fails
WaitForDomainFail ==
    /\ Fault
    /\ cpc = "WaitForDomain"
    /\ outbox[cconn] = <<>>
    /\ HandshakeFailed
    /\ UNCHANGED <<regVars, pc, serverPort, peer, inbox, outbox, ctxDone, listener>>
    /\ UNCHANGED <<cmode, attempt, waits, cconn, cdomain, olddomain>>
    /\ UNCHANGED outsideServer

\* Reconnect: log the failure, time.Sleep(waitTime), i++; after the last attempt return err
Backoff ==
    /\ cpc = "Backoff"
    /\ waits' = Append(waits, WaitTime(attempt))
    /\ attempt' = attempt + 1
    /\ cpc' = IF attempt + 1 < MaxAttempts THEN "Connect" ELSE "Returned"
    /\ UNCHANGED serverVars
    /\ UNCHANGED <<cmode, cerr, cconn, cdomain, olddomain>>
    /\ UNCHANGED outsideServer

\* Start that goes on after Reconnect whatever it returned
StartResumeIgnoringErr ==
    /\ cpc = "Returned"
    /\ cpc' = "Run"
    /\ UNCHANGED serverVars
    /\ UNCHANGED <<cmode, attempt, cerr, waits, cconn, cdomain, olddomain>>
    /\ UNCHANGED outsideServer

\* Start: Reconnect returned an error: log.Fatal ends the process
StartFatal ==
    /\ cpc = "Returned"
    /\ cerr
    /\ cpc' = "Fatal"
    /\ UNCHANGED serverVars
    /\ UNCHANGED <<cmode, attempt, cerr, waits, cconn, cdomain, olddomain>>
    /\ UNCHANGED outsideServer

\* Start: Reconnect returned nil: the reader goroutine is started again
StartResume ==
    /\ cpc = "Returned"
    /\ ~cerr
    /\ cpc' = "Run"
    /\ UNCHANGED serverVars
    /\ UNCHANGED <<cmode, attempt, cerr, waits, cconn, cdomain, olddomain>>
    /\ UNCHANGED outsideServer

\* Start: the reader goroutine reports a read error (the transport dropped or the
\* server closed the connection); Reconnect begins with i = 0
StartReadError ==
    /\ Fault
    /\ cpc = "Run"
    /\ cmode' = "reconnect"
    /\ attempt' = 0
    /\ waits' = <<>>
    /\ olddomain' = cdomain
    /\ cpc' = "Connect"
    /\ UNCHANGED <<regVars, pc, serverPort, peer, inbox, outbox, ctxDone, listener>>
    /\ UNCHANGED <<cerr, cconn, cdomain>>
    /\ UNCHANGED outsideServer

\* the clients that are not followed: they dial and send their local port
OthersNext ==
    \/ \E h \in Handlers : OtherDial(h)
    \/ \E h \in Handlers : OtherSendPort(h)

HandlerNext ==
    \/ \E h \in Handlers : UpgradeFail(h)
    \/ \E h \in Handlers : ReadPort(h)
    \/ \E h \in Handlers : ReadPortFail(h)
    \/ \E h \in Handlers : AllocLock(h)
    \/ \E h \in Handlers : AllocCommit(h)
    \/ \E h \in Handlers : HostMapBegin(h)
    \/ \E h \in Handlers : HostMapEnd(h)
    \/ \E h \in Handlers : SendDomain(h)
    \/ \E h \in Handlers : SendDomainFail(h)
    \/ \E h \in Handlers : ConfigureCaddy(h)
    \/ \E h \in Handlers : ConfigureCaddyFail(h)
    \/ \E h \in Handlers : StartListener(h)
    \/ \E h \in Handlers : PortListen(h)
    \/ \E h \in Handlers : PortListenFail(h)
    \/ \E h \in Handlers : PingFail(h)
    \/ \E h \in Handlers : WaitDone(h)
    \/ \E x \in Hosts : HandleHTTPRequest(x)

ClientNext ==
    \/ \E h \in Handlers : Connect(h)
    \/ ConnectFail
    \/ SendLocalPort
    \/ SendLocalPortFail
    \/ WaitForDomain
    \/ WaitForDomainFail
    \/ Backoff
    \/ StartFatal
    \/ StartResume
    \/ StartReadError

(***************************************************************************)
(* The registry of package tunnel (server/tunnel/handler.go) and the       *)
(* connection object its handlers hold (server/ws).  The package has its   *)
(* own nextPort, activePorts and hostMap.  The specification SpecHandler   *)
(* has a caller that makes the calls of the package's API one at a time,   *)
(* in any order and with any argument.                                     *)
(***************************************************************************)

\* handlers of package tunnel, each with its connection
NumTunnels == 1

\* ports the registry of package tunnel hands out during a run
MaxPorts == 2

TunnelHandlers == 1..NumTunnels

\* the ports a caller passes
TunnelPorts == PortFloor..(PortFloor + MaxPorts - 1)

\* the hosts a caller passes
TunnelHosts == {Subdomain(p) : p \in TunnelPorts}

InitTunnel ==
    /\ tNextPort = PortFloor
    /\ tActivePorts = {}
    /\ tHostMap = EmptyMap
    /\ tPort = [h \in TunnelHandlers |-> 0]
    /\ tDomain = [h \in TunnelHandlers |-> <<>>]
    /\ tLast = <<>>
    /\ tRepeated = FALSE
    /\ tErr = "none"

\* the calls that release
Releases == {"ReleasePort", "UnregisterHost", "Close"}

\* the caller makes call c, which returns err ("none" when the function has no result)
Called(c, err) ==
    /\ tLast' = c
    /\ tRepeated' = (c[1] \in Releases /\ tLast = c)
    /\ tErr' = err

\* port := nextPort; for activePorts[port] { port++ }
RECURSIVE TunnelScanFrom(_)
TunnelScanFrom(port) == IF port \in tActivePorts THEN TunnelScanFrom(port + 1) ELSE port

\* the stretches of the port range in which the registry is followed: MaxPorts ports
\* from the floor, and MaxPorts ports from the highest TCP port
Windows == {PortFloor, PortMax}

\* Handler.AssignPort
AssignPort(h) ==
    /\ \E base \in Windows : tNextPort \in base..(base + MaxPorts - 1)
    /\ LET port == TunnelScanFrom(tNextPort)
       IN  /\ tNextPort' = port + 1
           /\ tActivePorts' = tActivePorts \cup {port}
           /\ tPort' = [tPort EXCEPT ![h] = port]
    /\ Called(<<"AssignPort">>, "nil")
    /\ UNCHANGED <<tHostMap, tDomain>>
    /\ UNCHANGED outsideTunnel

\* delete(activePorts, port) that marks a port that is not marked
ReleasePortToggling(active, port) ==
    IF port \in active THEN active \ {port} ELSE active \cup {port}

\* delete(activePorts, port) under portMutex: activePorts after Handler.ReleasePort
ReleasePortIn(active, port) == active \ {port}

\* delete(hostMap, host): hostMap after Handler.UnregisterHost
UnregisterHostIn(hosts, host) == MapDelete(hosts, host)

\* Handler.ReleasePort; the receiver is not used
ReleasePort(port) ==
    /\ tActivePorts' = ReleasePortIn(tActivePorts, port)
    /\ Called(<<"ReleasePort", port>>, "none")
    /\ UNCHANGED <<tNextPort, tHostMap, tPort, tDomain>>
    /\ UNCHANGED outsideTunnel

\* Handler.RegisterHost; the receiver is not used
RegisterHost(host, port) ==
    /\ tHostMap' = MapPut(tHostMap, host, port)
    /\ Called(<<"RegisterHost">>, "none")
    /\ UNCHANGED <<tNextPort, tActivePorts, tPort, tDomain>>
    /\ UNCHANGED outsideTunnel

\* Handler.UnregisterHost; the receiver is not used
UnregisterHost(host) ==
    /\ tHostMap' = UnregisterHostIn(tHostMap, host)
    /\ Called(<<"UnregisterHost", host>>, "none")
    /\ UNCHANGED <<tNextPort, tActivePorts, tPort, tDomain>>
    /\ UNCHANGED outsideTunnel

\* Connection.SetDomain on the handler's wsConn
SetDomain(h, domain) ==
    /\ tDomain' = [tDomain EXCEPT ![h] = domain]
    /\ Called(<<"SetDomain">>, "none")
    /\ UNCHANGED <<tNextPort, tActivePorts, tHostMap, tPort>>
    /\ UNCHANGED outsideTunnel

\* Handler.Close: ReleasePort if the port is set, UnregisterHost if the domain is set;
\* h.cancel() and h.wsConn.Close() before and after them leave the registry alone, a
\* second cancel does nothing and the error of a second conn.Close() is dropped
Close(h) ==
    /\ tActivePorts' = IF tPort[h] # 0 THEN ReleasePortIn(tActivePorts, tPort[h])
                                       ELSE tActivePorts
    /\ tHostMap' = IF tDomain[h] # <<>> THEN UnregisterHostIn(tHostMap, tDomain[h])
                                        ELSE tHostMap
    /\ Called(<<"Close", h>>, "none")
    /\ UNCHANGED <<tNextPort, tPort, tDomain>>
    /\ UNCHANGED outsideTunnel

NextHandler ==
    \/ \E h \in TunnelHandlers : AssignPort(h)
    \/ \E port \in TunnelPorts : ReleasePort(port)
    \/ \E host \in TunnelHosts, port \in TunnelPorts : RegisterHost(host, port)
    \/ \E host \in TunnelHosts : UnregisterHost(host)
    \/ \E h \in TunnelHandlers, domain \in TunnelHosts : SetDomain(h, domain)
    \/ \E h \in TunnelHandlers : Close(h)

\* the registry of package tunnel after PortMax - PortFloor allocations, all of them
\* released and their handlers gone: nextPort has arrived at the highest TCP port
InitCeiling ==
    /\ tNextPort = PortMax
    /\ tActivePorts = {}
    /\ tHostMap = EmptyMap
    /\ tPort = [h \in TunnelHandlers |-> 0]
    /\ tDomain = [h \in TunnelHandlers |-> <<>>]
    /\ tLast = <<>>
    /\ tRepeated = FALSE
    /\ tErr = "none"

\* the ports a caller passes when the registry is at the top of the range
TopPorts == PortMax..(PortMax + MaxPorts - 1)

\* the hosts a caller passes when the registry is at the top of the range
TopHosts == {Subdomain(p) : p \in TopPorts}

NextCeiling ==
    \/ \E h \in TunnelHandlers : AssignPort(h)
    \/ \E port \in TopPorts : ReleasePort(port)
    \/ \E host \in TopHosts, port \in TopPorts : RegisterHost(host, port)
    \/ \E host \in TopHosts : UnregisterHost(host)
    \/ \E h \in TunnelHandlers, domain \in TopHosts : SetDomain(h, domain)
    \/ \E h \in TunnelHandlers : Close(h)

(***************************************************************************)
(* The multiplexed tunnel (main.go): runServer with its sessions map, the  *)
(* /tunnel handler, the proxy handler for visitors' requests, and          *)
(* runClient with handleStream.  A yamux session and its streams are taken *)
(* by yamux's contract: a session is open until its transport fails, a     *)
(* stream belongs to one session, Open and Write on a closed session or a  *)
(* closed stream return an error, and Accept on a closed session returns   *)
(* an error.                                                               *)
(***************************************************************************)

\* tunnel connections made to the multiplexed server during a run
MuxConns == 2

\* visitors' requests during a run (one yamux stream each)
MuxStreams == 2

\* the n of randString(n); the server calls randString(8)
IdLen == 1

\* letters of randString's alphabet that the model draws from; the program has 36
NumLetters == 2

\* chunks of a response that the local service sends on a stream
RespLen == 2

\* const letters = "abcdefghijklmnopqrstuvwxyz0123456789"
Letters == <<"a", "b", "c", "d", "e", "f", "g", "h", "i", "j", "k", "l", "m", "n", "o", "p",
             "q", "r", "s", "t", "u", "v", "w", "x", "y", "z", "0", "1", "2", "3", "4", "5",
             "6", "7", "8", "9">>

\* the values randString(n) can return: b[i] = letters[rand.Intn(len(letters))]
RandStrings(n) == [1..n -> {Letters[i] : i \in 1..NumLetters}]

MuxSessions == DOMAIN mPc

Streams == DOMAIN xSrv

\* the multiplexed server after runServer has started, with the tunnel connections and
\* the visitors' requests of the run still to come
InitMuxWith(conns, streams) ==
    /\ mSessions = EmptyMap
    /\ mPc = [s \in conns |-> "Idle"]
    /\ mId = [s \in conns |-> <<>>]
    /\ mLive = [s \in conns |-> "none"]
    /\ mCli = [s \in conns |-> "Dial"]
    /\ mInfo = [s \in conns |-> <<>>]
    /\ xSess = [x \in streams |-> 0]
    /\ xSrv = [x \in streams |-> "none"]
    /\ xCli = [x \in streams |-> "none"]
    /\ xResp = [x \in streams |-> 0]
    /\ mFaults = 0

\* an environment failure happens, within the bound
MuxFault == mFaults < MaxFaults /\ mFaults' = mFaults + 1

\* s is the next tunnel connection made
MuxFreeSlot(s) == mPc[s] = "Idle" /\ \A r \in MuxSessions : r < s => mPc[r] # "Idle"

\* /tunnel handler: upgrader.Upgrade fails; the client's Dial fails and runClient exits
MuxUpgradeFail(s) ==
    /\ MuxFault
    /\ MuxFreeSlot(s)
    /\ mPc' = [mPc EXCEPT ![s] = "RetUpgrade"]
    /\ mCli' = [mCli EXCEPT ![s] = "Fatal"]
    /\ UNCHANGED <<mSessions, mId, mLive, mInfo, xSess, xSrv, xCli, xResp>>
    /\ UNCHANGED outsideMux

\* /tunnel handler: Upgrade, id := randString(8), ws.WriteJSON(handshake),
\* yamux.Server(conn, nil); the client's Dial has returned
MuxUpgrade(s, id) ==
    /\ UNCHANGED mFaults
    /\ MuxFreeSlot(s)
    /\ mPc' = [mPc EXCEPT ![s] = "Made"]
    /\ mId' = [mId EXCEPT ![s] = id]
    /\ mLive' = [mLive EXCEPT ![s] = "open"]
    /\ mCli' = [mCli EXCEPT ![s] = "Handshake"]
    /\ UNCHANGED <<mSessions, mInfo, xSess, xSrv, xCli, xResp>>
    /\ UNCHANGED outsideMux

\* /tunnel handler: mu.Lock(); sessions[id] = sess; mu.Unlock(); the goroutine that
\* waits on sess.CloseChan() is started
MuxRegister(s) ==
    /\ UNCHANGED mFaults
    /\ mPc[s] = "Made"
    /\ mSessions' = MapPut(mSessions, mId[s], s)
    /\ mPc' = [mPc EXCEPT ![s] = "Registered"]
    /\ UNCHANGED <<mId, mLive, mCli, mInfo, xSess, xSrv, xCli, xResp>>
    /\ UNCHANGED outsideMux

\* the goroutine of the /tunnel handler: <-sess.CloseChan(); delete(sessions, id)
MuxCleanup(s) ==
    /\ UNCHANGED mFaults
    /\ mPc[s] = "Registered"
    /\ mLive[s] = "closed"
    /\ mSessions' = MapDelete(mSessions, mId[s])
    /\ mPc' = [mPc EXCEPT ![s] = "Cleaned"]
    /\ UNCHANGED <<mId, mLive, mCli, mInfo, xSess, xSrv, xCli, xResp>>
    /\ UNCHANGED outsideMux

\* the transport of a session fails: yamux closes the session at both ends
MuxTransportFail(s) ==
    /\ MuxFault
    /\ mLive[s] = "open"
    /\ mLive' = [mLive EXCEPT ![s] = "closed"]
    /\ UNCHANGED <<mSessions, mPc, mId, mCli, mInfo, xSess, xSrv, xCli, xResp>>
    /\ UNCHANGED outsideMux

\* runClient: ws.ReadJSON(&info) succeeds, yamux.Client(conn, nil), the Accept loop
MuxClientHandshake(s) ==
    /\ UNCHANGED mFaults
    /\ mCli[s] = "Handshake"
    /\ mLive[s] = "open"
    /\ mInfo' = [mInfo EXCEPT ![s] = mId[s]]
    /\ mCli' = [mCli EXCEPT ![s] = "Accepting"]
    /\ UNCHANGED <<mSessions, mPc, mId, mLive, xSess, xSrv, xCli, xResp>>
    /\ UNCHANGED outsideMux

\* runClient: ws.ReadJSON(&info) fails: Fatal; the process and its connection end
MuxClientHandshakeFail(s) ==
    /\ mCli[s] = "Handshake"
    /\ \/ mLive[s] = "closed" /\ UNCHANGED mFaults
       \/ mLive[s] = "open" /\ MuxFault
    /\ mCli' = [mCli EXCEPT ![s] = "Fatal"]
    /\ mLive' = [mLive EXCEPT ![s] = "closed"]
    /\ UNCHANGED <<mSessions, mPc, mId, mInfo, xSess, xSrv, xCli, xResp>>
    /\ UNCHANGED outsideMux

\* runClient: sess.Accept() returns an error on the closed session: return
MuxAcceptError(s) ==
    /\ UNCHANGED mFaults
    /\ mCli[s] = "Accepting"
    /\ mLive[s] = "closed"
    /\ mCli' = [mCli EXCEPT ![s] = "Returned"]
    /\ UNCHANGED <<mSessions, mPc, mId, mLive, mInfo, xSess, xSrv, xCli, xResp>>
    /\ UNCHANGED outsideMux

\* x is the next request of a visitor: the requests are numbered as they arrive
NextRequest(x) == xSrv[x] = "none" /\ \A w \in Streams : w < x => xSrv[w] # "none"

\* proxy handler: sessions[id] is nil: 404 no such tunnel
ProxyNotFound(x, id) ==
    /\ UNCHANGED mFaults
    /\ NextRequest(x)
    /\ id \notin DOMAIN mSessions
    /\ xSrv' = [xSrv EXCEPT ![x] = "notfound"]
    /\ UNCHANGED <<mSessions, mPc, mId, mLive, mCli, mInfo, xSess, xCli, xResp>>
    /\ UNCHANGED outsideMux

\* proxy handler: sess.Open() fails on a closed session: 502 tunnel error
ProxyOpenFail(x, id) ==
    /\ UNCHANGED mFaults
    /\ NextRequest(x)
    /\ id \in DOMAIN mSessions
    /\ mLive[mSessions[id]] = "closed"
    /\ xSrv' = [xSrv EXCEPT ![x] = "openfail"]
    /\ UNCHANGED <<mSessions, mPc, mId, mLive, mCli, mInfo, xSess, xCli, xResp>>
    /\ UNCHANGED outsideMux

\* proxy handler: sess := sessions[id]; stream, err := sess.Open() succeeds
ProxyOpen(x, id) ==
    /\ UNCHANGED mFaults
    /\ NextRequest(x)
    /\ id \in DOMAIN mSessions
    /\ mLive[mSessions[id]] = "open"
    /\ xSess' = [xSess EXCEPT ![x] = mSessions[id]]
    /\ xSrv' = [xSrv EXCEPT ![x] = "opened"]
    /\ xCli' = [xCli EXCEPT ![x] = "pending"]
    /\ UNCHANGED <<mSessions, mPc, mId, mLive, mCli, mInfo, xResp>>
    /\ UNCHANGED outsideMux

\* the client's end of stream x is closed
ClientEndClosed(x) == xCli[x] \in {"dialfail", "done"}

\* proxy handler: hj.Hijack() fails: stream.Close(), return
ProxyHijackFail(x) ==
    /\ MuxFault
    /\ xSrv[x] = "opened"
    /\ xSrv' = [xSrv EXCEPT ![x] = "done"]
    /\ UNCHANGED <<mSessions, mPc, mId, mLive, mCli, mInfo, xSess, xCli, xResp>>
    /\ UNCHANGED outsideMux

\* proxy handler: Hijack and r.Write(stream) succeed; the two relay goroutines start
ProxyForward(x) ==
    /\ UNCHANGED mFaults
    /\ xSrv[x] = "opened"
    /\ mLive[xSess[x]] = "open"
    /\ ~ClientEndClosed(x)
    /\ xSrv' = [xSrv EXCEPT ![x] = "relay"]
    /\ UNCHANGED <<mSessions, mPc, mId, mLive, mCli, mInfo, xSess, xCli, xResp>>
    /\ UNCHANGED outsideMux

\* proxy handler: r.Write(stream) fails: netConn.Close(), stream.Close(), return
ProxyForwardFail(x) ==
    /\ UNCHANGED mFaults
    /\ xSrv[x] = "opened"
    /\ mLive[xSess[x]] = "closed" \/ ClientEndClosed(x)
    /\ xSrv' = [xSrv EXCEPT ![x] = "done"]
    /\ UNCHANGED <<mSessions, mPc, mId, mLive, mCli, mInfo, xSess, xCli, xResp>>
    /\ UNCHANGED outsideMux

\* proxy handler's relay goroutines: a copy ends because the stream is closed at the
\* client's end or the session is closed; netConn.Close(), stream.Close()
ProxyRelayEnd(x) ==
    /\ UNCHANGED mFaults
    /\ xSrv[x] = "relay"
    /\ mLive[xSess[x]] = "closed" \/ ClientEndClosed(x)
    /\ xSrv' = [xSrv EXCEPT ![x] = "done"]
    /\ UNCHANGED <<mSessions, mPc, mId, mLive, mCli, mInfo, xSess, xCli, xResp>>
    /\ UNCHANGED outsideMux

\* proxy handler's relay goroutines: the visitor closes or resets its connection;
\* io.Copy(stream, netConn) ends; stream.Close(), netConn.Close()
VisitorAbort(x) ==
    /\ MuxFault
    /\ xSrv[x] = "relay"
    /\ xSrv' = [xSrv EXCEPT ![x] = "done"]
    /\ UNCHANGED <<mSessions, mPc, mId, mLive, mCli, mInfo, xSess, xCli, xResp>>
    /\ UNCHANGED outsideMux

\* runClient: stream, err := sess.Accept() returns stream x; go handleStream(stream)
ClientAccept(x) ==
    /\ UNCHANGED mFaults
    /\ xCli[x] = "pending"
    /\ mCli[xSess[x]] = "Accepting"
    /\ mLive[xSess[x]] = "open"
    /\ xCli' = [xCli EXCEPT ![x] = "accepted"]
    /\ UNCHANGED <<mSessions, mPc, mId, mLive, mCli, mInfo, xSess, xSrv, xResp>>
    /\ UNCHANGED outsideMux

\* handleStream: net.Dial to the local service succeeds; the two copies start
HandleStreamDial(x) ==
    /\ UNCHANGED mFaults
    /\ xCli[x] = "accepted"
    /\ xCli' = [xCli EXCEPT ![x] = "relay"]
    /\ UNCHANGED <<mSessions, mPc, mId, mLive, mCli, mInfo, xSess, xSrv, xResp>>
    /\ UNCHANGED outsideMux

\* handleStream whose failed dial also shuts the session down
HandleStreamDialFailClosesSession(x) ==
    /\ MuxFault
    /\ xCli[x] = "accepted"
    /\ xCli' = [xCli EXCEPT ![x] = "dialfail"]
    /\ mLive' = [mLive EXCEPT ![xSess[x]] = "closed"]
    /\ UNCHANGED <<mSessions, mPc, mId, mCli, mInfo, xSess, xSrv, xResp>>
    /\ UNCHANGED outsideMux

\* handleStream: net.Dial fails: return; the deferred stream.Close() runs
HandleStreamDialFail(x) ==
    /\ MuxFault
    /\ xCli[x] = "accepted"
    /\ xCli' = [xCli EXCEPT ![x] = "dialfail"]
    /\ UNCHANGED <<mSessions, mPc, mId, mLive, mCli, mInfo, xSess, xSrv, xResp>>
    /\ UNCHANGED outsideMux

\* a chunk of the response goes from the local service to the visitor: handleStream's
\* io.Copy(stream, local), then the proxy handler's io.Copy(netConn, stream)
RelayChunk(x) ==
    /\ UNCHANGED mFaults
    /\ xCli[x] = "relay"
    /\ xSrv[x] = "relay"
    /\ mLive[xSess[x]] = "open"
    /\ xResp[x] < RespLen
    /\ xResp' = [xResp EXCEPT ![x] = @ + 1]
    /\ UNCHANGED <<mSessions, mPc, mId, mLive, mCli, mInfo, xSess, xSrv, xCli>>
    /\ UNCHANGED outsideMux

\* handleStream: io.Copy(stream, local) ends (the local service has sent its response
\* and closed, or the session is closed): return; the deferred local.Close() and
\* stream.Close() run.  The end of the other copy, go io.Copy(local, stream), which
\* reads end-of-stream once the server has closed its end, returns nothing to
\* handleStream, and a write to a stream whose other end is closed still succeeds.
HandleStreamReturn(x) ==
    /\ UNCHANGED mFaults
    /\ xCli[x] = "relay"
    /\ xResp[x] = RespLen \/ mLive[xSess[x]] = "closed"
    /\ xCli' = [xCli EXCEPT ![x] = "done"]
    /\ UNCHANGED <<mSessions, mPc, mId, mLive, mCli, mInfo, xSess, xSrv, xResp>>
    /\ UNCHANGED outsideMux

\* handleStream: the local service fails in the middle of its response
LocalServiceFail(x) ==
    /\ MuxFault
    /\ xCli[x] = "relay"
    /\ xResp[x] < RespLen
    /\ xCli' = [xCli EXCEPT ![x] = "done"]
    /\ UNCHANGED <<mSessions, mPc, mId, mLive, mCli, mInfo, xSess, xSrv, xResp>>
    /\ UNCHANGED outsideMux

NextMux ==
    \/ \E s \in MuxSessions : MuxUpgradeFail(s)
    \/ \E s \in MuxSessions, id \in RandStrings(IdLen) : MuxUpgrade(s, id)
    \/ \E s \in MuxSessions : MuxRegister(s)
    \/ \E s \in MuxSessions : MuxCleanup(s)
    \/ \E s \in MuxSessions : MuxTransportFail(s)
    \/ \E s \in MuxSessions : MuxClientHandshake(s)
    \/ \E s \in MuxSessions : MuxClientHandshakeFail(s)
    \/ \E s \in MuxSessions : MuxAcceptError(s)
    \/ \E x \in Streams, id \in RandStrings(IdLen) : ProxyNotFound(x, id)
    \/ \E x \in Streams, id \in RandStrings(IdLen) : ProxyOpenFail(x, id)
    \/ \E x \in Streams, id \in RandStrings(IdLen) : ProxyOpen(x, id)
    \/ \E x \in Streams : ProxyHijackFail(x)
    \/ \E x \in Streams : ProxyForward(x)
    \/ \E x \in Streams : ProxyForwardFail(x)
    \/ \E x \in Streams : ProxyRelayEnd(x)
    \/ \E x \in Streams : VisitorAbort(x)
    \/ \E x \in Streams : ClientAccept(x)
    \/ \E x \in Streams : HandleStreamDial(x)
    \/ \E x \in Streams : HandleStreamDialFail(x)
    \/ \E x \in Streams : RelayChunk(x)
    \/ \E x \in Streams : HandleStreamReturn(x)
    \/ \E x \in Streams : LocalServiceFail(x)

(***************************************************************************)
(* The transport adapter (main.go, wsConn): Read on top of the messages of *)
(* a WebSocket connection.  The bytes of the binary messages are numbered  *)
(* 1, 2, 3, ... in the order in which they are sent, so that a byte that   *)
(* is lost, doubled or out of place shows.                                 *)
(***************************************************************************)

\* messages sent on the connection during a run
MaxFrames == 2

\* bytes in a message
MaxFrameLen == 2

\* len(p), the size of the caller's buffer in a Read
MaxBuf == 2

\* what a run sends: for each message its type and its length
FrameKinds == {"binary", "text"} \X (0..MaxFrameLen)

FramePlans == UNION {[1..n -> FrameKinds] : n \in 0..MaxFrames}

\* the messages of a plan, the bytes of the binary ones numbered from start + 1
RECURSIVE LabelFrames(_, _)
LabelFrames(plan, start) ==
    IF plan = <<>> THEN <<>>
    ELSE LET type == Head(plan)[1]
             len == Head(plan)[2]
         IN  IF type = "binary"
               THEN <<[type |-> type, data |-> [i \in 1..len |-> start + i]]>>
                      \o LabelFrames(Tail(plan), start + len)
               ELSE <<[type |-> type, data |-> [i \in 1..len |-> 0]]>>
                      \o LabelFrames(Tail(plan), start)

\* the payloads of the binary messages of a sequence of messages, concatenated
RECURSIVE Payloads(_)
Payloads(frames) ==
    IF frames = <<>> THEN <<>>
    ELSE (IF Head(frames).type = "binary" THEN Head(frames).data ELSE <<>>)
           \o Payloads(Tail(frames))

InitReadWith(plan) ==
    /\ rSending = LabelFrames(plan, 0)
    /\ rFrames = <<>>
    /\ rReadBuf = <<>>
    /\ rOut = <<>>
    /\ rRet = <<0, "nil">>
    /\ rTotal = Len(Payloads(LabelFrames(plan, 0)))
    /\ rSplit = FALSE

\* the peer sends its next message (wsConn.Write sends p as one binary message); the
\* message arrives
PeerWrite ==
    /\ rSending # <<>>
    /\ rFrames' = Append(rFrames, Head(rSending))
    /\ rSending' = Tail(rSending)
    /\ UNCHANGED <<rReadBuf, rOut, rRet, rTotal, rSplit>>
    /\ UNCHANGED outsideRead

\* bytes.Buffer.Read that forgets what does not fit into p
BufferReadDroppingRest(buf, n) ==
    IF buf = <<>>
      THEN [data |-> <<>>, rest |-> <<>>, err |-> IF n = 0 THEN "nil" ELSE "EOF"]
      ELSE [data |-> SubSeq(buf, 1, IF n < Len(buf) THEN n ELSE Len(buf)),
            rest |-> <<>>, err |-> "nil"]

\* bytes.Buffer.Read(p) with len(p) = n: the bytes copied to p, the bytes left in the
\* buffer, and the error, io.EOF when the buffer is empty and p is not
BufferRead(buf, n) ==
    IF buf = <<>>
      THEN [data |-> <<>>, rest |-> <<>>, err |-> IF n = 0 THEN "nil" ELSE "EOF"]
      ELSE LET k == IF n < Len(buf) THEN n ELSE Len(buf)
           IN  [data |-> SubSeq(buf, 1, k), rest |-> SubSeq(buf, k + 1, Len(buf)),
                err |-> "nil"]

\* wsConn.Read(p) with len(p) = n, NextReader returning the next message if it is called
Read(n) ==
    /\ rReadBuf # <<>> \/ rFrames # <<>>
    /\ IF rReadBuf = <<>> /\ Head(rFrames).type # "binary"
         THEN /\ rFrames' = Tail(rFrames)
              /\ rRet' = <<0, "expected binary message">>
              /\ UNCHANGED <<rReadBuf, rOut, rSplit>>
         ELSE LET filled == IF rReadBuf = <<>> THEN Head(rFrames).data ELSE rReadBuf
                  r == BufferRead(filled, n)
              IN  /\ rFrames' = IF rReadBuf = <<>> THEN Tail(rFrames) ELSE rFrames
                  /\ rReadBuf' = r.rest
                  /\ rOut' = rOut \o r.data
                  /\ rRet' = <<Len(r.data), r.err>>
                  /\ rSplit' = (rSplit \/ (r.data # <<>> /\ r.rest # <<>>))
    /\ UNCHANGED <<rSending, rTotal>>
    /\ UNCHANGED outsideRead

\* wsConn.Read(p): c.readBuf is empty and NextReader returns an error
ReadFail ==
    /\ rReadBuf = <<>>
    /\ rRet' = <<0, "error">>
    /\ UNCHANGED <<rSending, rFrames, rReadBuf, rOut, rTotal, rSplit>>
    /\ UNCHANGED outsideRead

NextRead ==
    \/ PeerWrite
    \/ \E n \in 0..MaxBuf : Read(n)
    \/ ReadFail

(***************************************************************************)
(* One visitor's relay over an established session of the port-registry    *)
(* server.  startPortListener (server.go) accepts the visitor's connection *)
(* c and starts two goroutines for it: one reads c and writes what it read *)
(* as one binary message, the other reads the messages of the WebSocket    *)
(* connection and writes them to c.  The client's tunnel handler (main.go, *)
(* package tunnel) takes each message to a new connection to the local     *)
(* service and sends back what one Read of that connection returns.  The   *)
(* local service echoes what it receives.                                  *)
(***************************************************************************)

\* bytes a visitor sends during a run
MaxBytes == 3

\* len(buf) of the server's read of the visitor's connection (4096 in server.go)
ServerBuf == 2

\* len(buf) of the client's read of the local service's response (4096 in main.go)
ClientBuf == 2

\* the bytes the visitor sends
Sent == [i \in 1..vLen |-> i]

InitRelayWith(n) ==
    /\ vLen = n
    /\ vIn = [i \in 1..n |-> i]
    /\ vUp = <<>>
    /\ vLocal = <<>>
    /\ vDown = <<>>
    /\ vOut = <<>>
    /\ vWs = "open"
    /\ vA = "reading"
    /\ vB = "reading"
    /\ vDialFailed = FALSE
    /\ vFaults = 0

\* an environment failure happens, within the bound
RelayFault == vFaults < MaxFaults /\ vFaults' = vFaults + 1

\* startPortListener, the goroutine that reads c: n, err := c.Read(buf) returns n bytes,
\* messageBuffer = append(messageBuffer, buf[:n]...), wsConn.WriteMessage(BinaryMessage,
\* messageBuffer), messageBuffer = messageBuffer[:0]
ServerReadVisitor(n) ==
    /\ UNCHANGED vFaults
    /\ vA = "reading"
    /\ vWs = "open"
    /\ n \in 1..Len(vIn)
    /\ n <= ServerBuf
    /\ vUp' = Append(vUp, SubSeq(vIn, 1, n))
    /\ vIn' = SubSeq(vIn, n + 1, Len(vIn))
    /\ UNCHANGED <<vLen, vLocal, vDown, vOut, vWs, vA, vB, vDialFailed>>
    /\ UNCHANGED outsideRelay

\* startPortListener, the goroutine that reads c: c.Read returns bytes and
\* wsConn.WriteMessage fails on the closed connection: return; the deferred c.Close()
\* and connCancel() run
ServerReadVisitorWriteFail(n) ==
    /\ UNCHANGED vFaults
    /\ vA = "reading"
    /\ vWs = "closed"
    /\ n \in 1..Len(vIn)
    /\ n <= ServerBuf
    /\ vIn' = SubSeq(vIn, n + 1, Len(vIn))
    /\ vA' = "done"
    /\ UNCHANGED <<vLen, vUp, vLocal, vDown, vOut, vWs, vB, vDialFailed>>
    /\ UNCHANGED outsideRelay

\* the visitor closes its connection after what it sent has been read: c.Read returns
\* io.EOF: return; the deferred c.Close() and connCancel() run
VisitorClose ==
    /\ RelayFault
    /\ vA = "reading"
    /\ vIn = <<>>
    /\ vA' = "done"
    /\ UNCHANGED <<vLen, vIn, vUp, vLocal, vDown, vOut, vWs, vB, vDialFailed>>
    /\ UNCHANGED outsideRelay

\* startPortListener, the goroutine that reads the WebSocket connection:
\* wsConn.ReadMessage() returns a binary message, c.Write(message)
ServerWsRead ==
    /\ UNCHANGED vFaults
    /\ vB = "reading"
    /\ vDown # <<>>
    /\ vA = "reading"
    /\ vOut' = vOut \o Head(vDown)
    /\ vDown' = Tail(vDown)
    /\ UNCHANGED <<vLen, vIn, vUp, vLocal, vWs, vA, vB, vDialFailed>>
    /\ UNCHANGED outsideRelay

\* the same goroutine: c.Write(message) fails because c is closed: return
ServerWsReadWriteFail ==
    /\ UNCHANGED vFaults
    /\ vB = "reading"
    /\ vDown # <<>>
    /\ vA = "done"
    /\ vDown' = Tail(vDown)
    /\ vB' = "done"
    /\ UNCHANGED <<vLen, vIn, vUp, vLocal, vOut, vWs, vA, vDialFailed>>
    /\ UNCHANGED outsideRelay

\* the same goroutine: wsConn.ReadMessage() fails on the closed connection: return;
\* nothing is closed and connCancel is not called
ServerWsReadFail ==
    /\ UNCHANGED vFaults
    /\ vB = "reading"
    /\ vWs = "closed"
    /\ vB' = "done"
    /\ UNCHANGED <<vLen, vIn, vUp, vLocal, vDown, vOut, vWs, vA, vDialFailed>>
    /\ UNCHANGED outsideRelay

\* n, err := localConn.Read(buf): the counts one Read of a response can return, any
\* count from 1 to len(buf) of the bytes that have arrived
LocalRead(response) == {k \in 1..Len(response) : k <= ClientBuf}

\* the client's Handler.handleMessage for the next message: net.Dial, the message is
\* written to the local service, which echoes it, one localConn.Read(buf) returns k
\* bytes, h.wsConn.WriteMessage(buf[:n]), the deferred localConn.Close()
HandleMessage(k) ==
    /\ UNCHANGED vFaults
    /\ vWs = "open"
    /\ vUp # <<>>
    /\ k \in LocalRead(Head(vUp))
    /\ vLocal' = vLocal \o Head(vUp)
    /\ vDown' = Append(vDown, SubSeq(Head(vUp), 1, k))
    /\ vUp' = Tail(vUp)
    /\ UNCHANGED <<vLen, vIn, vOut, vWs, vA, vB, vDialFailed>>
    /\ UNCHANGED outsideRelay

\* the client's Handler.handleMessage: net.Dial fails: the error is logged, return;
\* nothing is written to the connection
HandleMessageDialFail ==
    /\ RelayFault
    /\ vWs = "open"
    /\ vUp # <<>>
    /\ vUp' = Tail(vUp)
    /\ vDialFailed' = TRUE
    /\ UNCHANGED <<vLen, vIn, vLocal, vDown, vOut, vWs, vA, vB>>
    /\ UNCHANGED outsideRelay

\* the WebSocket connection fails or is closed; the messages on it are lost
WsFail ==
    /\ RelayFault
    /\ vWs = "open"
    /\ vWs' = "closed"
    /\ vUp' = <<>>
    /\ vDown' = <<>>
    /\ UNCHANGED <<vLen, vIn, vLocal, vOut, vA, vB, vDialFailed>>
    /\ UNCHANGED outsideRelay

\* the steps the goroutines take by themselves
RelayProgress ==
    \/ \E n \in 1..ServerBuf : ServerReadVisitor(n)
    \/ \E n \in 1..ServerBuf : ServerReadVisitorWriteFail(n)
    \/ ServerWsRead
    \/ ServerWsReadWriteFail
    \/ ServerWsReadFail
    \/ \E k \in 1..ClientBuf : HandleMessage(k)

NextRelay ==
    \/ RelayProgress
    \/ VisitorClose
    \/ HandleMessageDialFail
    \/ WsFail

(***************************************************************************)
(* Liveness probing of one established session of the port-registry        *)
(* server.  The server's end is handleTunnel (server.go) with its ping     *)
(* goroutine; it reads the connection only in the goroutine that           *)
(* startPortListener starts for a visitor's connection.  The client's end  *)
(* is either main of client.go with its ping goroutine, or                 *)
(* Connection.StartPingTicker of client/ws called by that client's main;   *)
(* both clients read the connection all the time.  gorilla/websocket runs  *)
(* the ping handler of a connection inside a read of that connection.      *)
(* Time is the passing of 30-second periods.                               *)
(***************************************************************************)

Ends == {"server", "client"}

ClientKinds == {"main", "StartPingTicker"}

\* the end a ping of end e arrives at
Other(e) == IF e = "server" THEN "client" ELSE "server"

InitProbeWith(kind) ==
    /\ pKind = kind
    /\ pStarted = [e \in Ends |-> FALSE]
    /\ pTicker = [e \in Ends |-> "none"]
    /\ pTick = [e \in Ends |-> FALSE]
    /\ pDue = [e \in Ends |-> FALSE]
    /\ pCancelled = [e \in Ends |-> FALSE]
    /\ pPing = [e \in Ends |-> FALSE]
    /\ pConn = "open"
    /\ pPeer = "running"
    /\ pSrv = "Wait"
    /\ pVisitor = FALSE
    /\ pFaults = 0

\* an environment failure happens, within the bound
ProbeFault == pFaults < MaxFaults /\ pFaults' = pFaults + 1

\* the code of end e runs: handleTunnel has not returned, the client has not stopped
Running(e) == IF e = "server" THEN pSrv = "Wait" ELSE pPeer = "running"

\* the ticker of end e after the function that starts the prober has returned:
\* handleTunnel and main of client.go defer pingTicker.Stop() to their own return;
\* StartPingTicker defers it too and returns as soon as the goroutine is started
TickerAfterStart(e) ==
    IF e = "client" /\ pKind = "StartPingTicker" THEN "stopped" ELSE "running"

\* pingTicker := time.NewTicker(30 * time.Second); defer pingTicker.Stop(); go func()
\* of handleTunnel, of main of client.go, or Connection.StartPingTicker as a whole
StartProber(e) ==
    /\ UNCHANGED pFaults
    /\ ~pStarted[e]
    /\ Running(e)
    /\ pStarted' = [pStarted EXCEPT ![e] = TRUE]
    /\ pTicker' = [pTicker EXCEPT ![e] = TickerAfterStart(e)]
    /\ UNCHANGED <<pKind, pTick, pDue, pCancelled, pPing, pConn, pPeer, pSrv, pVisitor>>
    /\ UNCHANGED outsideProbe

\* 30 seconds pass: a running ticker puts a tick into its channel
Elapse ==
    /\ UNCHANGED pFaults
    /\ pDue' = [e \in Ends |-> pDue[e] \/ (pStarted[e] /\ ~pCancelled[e] /\ Running(e))]
    /\ pTick' = [e \in Ends |-> pTick[e] \/ pTicker[e] = "running"]
    /\ UNCHANGED <<pKind, pStarted, pTicker, pCancelled, pPing, pConn, pPeer, pSrv, pVisitor>>
    /\ UNCHANGED outsideProbe

\* the ping goroutine: case <-pingTicker.C: conn.WriteMessage(PingMessage, "ping")
\* succeeds; the ping arrives at the other end
WritePing(e) ==
    /\ UNCHANGED pFaults
    /\ pStarted[e] /\ ~pCancelled[e] /\ Running(e)
    /\ pTick[e]
    /\ pConn = "open"
    /\ pTick' = [pTick EXCEPT ![e] = FALSE]
    /\ pDue' = [pDue EXCEPT ![e] = FALSE]
    /\ pPing' = [pPing EXCEPT ![Other(e)] = TRUE]
    /\ UNCHANGED <<pKind, pStarted, pTicker, pCancelled, pConn, pPeer, pSrv, pVisitor>>
    /\ UNCHANGED outsideProbe

\* the ping goroutine: conn.WriteMessage fails: the error is logged, cancel(), return
WritePingFail(e) ==
    /\ pStarted[e] /\ ~pCancelled[e] /\ Running(e)
    /\ pTick[e]
    /\ \/ pConn = "closed" /\ UNCHANGED pFaults
       \/ pConn = "open" /\ ProbeFault
    /\ pTick' = [pTick EXCEPT ![e] = FALSE]
    /\ pCancelled' = [pCancelled EXCEPT ![e] = TRUE]
    /\ pConn' = "closed"
    /\ UNCHANGED <<pKind, pStarted, pTicker, pDue, pPing, pPeer, pSrv, pVisitor>>
    /\ UNCHANGED outsideProbe

\* a goroutine of end e is inside a read of the connection
Reading(e) == IF e = "server" THEN pVisitor /\ pSrv = "Wait" ELSE pPeer = "running"

\* the ping handler of end e, run by a read of the connection:
\* conn.WriteMessage(PongMessage, appData); the pong handler of the other end logs it
AnswerPing(e) ==
    /\ UNCHANGED pFaults
    /\ pPing[e]
    /\ Reading(e)
    /\ pConn = "open"
    /\ pPing' = [pPing EXCEPT ![e] = FALSE]
    /\ UNCHANGED <<pKind, pStarted, pTicker, pTick, pDue, pCancelled, pConn, pPeer, pSrv,
                   pVisitor>>
    /\ UNCHANGED outsideProbe

\* startPortListener accepts a visitor's connection and starts the goroutine that reads
\* the WebSocket connection
VisitorConnect ==
    /\ UNCHANGED pFaults
    /\ ~pVisitor
    /\ pSrv = "Wait"
    /\ pVisitor' = TRUE
    /\ UNCHANGED <<pKind, pStarted, pTicker, pTick, pDue, pCancelled, pPing, pConn, pPeer,
                   pSrv>>
    /\ UNCHANGED outsideProbe

\* the client stops answering: it sends no pong and no data any more, while its
\* connection stays established
PeerGoesSilent ==
    /\ ProbeFault
    /\ pPeer = "running"
    /\ pConn = "open"
    /\ pPeer' = "silent"
    /\ UNCHANGED <<pKind, pStarted, pTicker, pTick, pDue, pCancelled, pPing, pConn, pSrv,
                   pVisitor>>
    /\ UNCHANGED outsideProbe

\* handleTunnel: <-connCtx.Done() returns after cancel(): "Connection closed", return;
\* the deferred cancel(), pingTicker.Stop() and conn.Close() run
HandleTunnelReturn ==
    /\ UNCHANGED pFaults
    /\ pSrv = "Wait"
    /\ pCancelled["server"]
    /\ pSrv' = "Returned"
    /\ pConn' = "closed"
    /\ pTicker' = [pTicker EXCEPT !["server"] = "stopped"]
    /\ UNCHANGED <<pKind, pStarted, pTick, pDue, pCancelled, pPing, pPeer, pVisitor>>
    /\ UNCHANGED outsideProbe

\* the write of a ping on a connection that is already closed
WritePingClosed(e) == WritePingFail(e) /\ pConn = "closed"

NextProbe ==
    \/ \E e \in Ends : StartProber(e)
    \/ Elapse
    \/ \E e \in Ends : WritePing(e)
    \/ \E e \in Ends : WritePingFail(e)
    \/ \E e \in Ends : AnswerPing(e)
    \/ VisitorConnect
    \/ PeerGoesSilent
    \/ HandleTunnelReturn

(***************************************************************************)
(* One session of the port-registry server with several visitors.          *)
(* startPortListener starts two goroutines for every accepted visitor      *)
(* connection c: one reads c and writes each chunk as a binary message to  *)
(* the session's WebSocket connection, the other reads the WebSocket       *)
(* connection and writes each binary message to c.  The ping goroutine of  *)
(* handleTunnel writes to the same connection, and so does the ping        *)
(* handler, which runs inside a read.  No message carries a visitor's      *)
(* identity; the ghost values in wUp, wDown and wGot record it.  The       *)
(* client is the client tunnel handler: Start hands one message at a time  *)
(* to handleMessage.  gorilla/websocket allows one writer at a time on a   *)
(* connection; overlapping writes end in its panic or in frames written    *)
(* into each other, or go unnoticed.                                       *)
(***************************************************************************)

\* visitors that connect to the session's port during a run
NumVisitors == 2

\* chunks a visitor sends during a run
MaxSends == 1

\* pings of the client, ticks of the server's ticker, text frames and drops of the
\* connection during a run
MaxEvents == 1

Visitors == 1..NumVisitors

\* the writers of the server's end of the connection: the ping goroutine, and for
\* every visitor the goroutine that forwards its bytes and the ping handler run by
\* the goroutine that reads the connection for it
PingWriter == <<"ping", 0>>

DataWriter(v) == <<"data", v>>

PongWriter(v) == <<"pong", v>>

InitSharedWith(mute) ==
    /\ wMute = mute
    /\ wVisitor = [v \in Visitors |-> "none"]
    /\ wIn = [v \in Visitors |-> 0]
    /\ wSent = [v \in Visitors |-> 0]
    /\ wInside = {}
    /\ wUp = <<>>
    /\ wCli = 0
    /\ wDown = <<>>
    /\ wGot = [v \in Visitors |-> <<>>]
    /\ wPing = FALSE
    /\ wTick = FALSE
    /\ wEnv = [e \in {"ping", "tick", "text", "drop"} |-> 0]
    /\ wWs = "open"
    /\ wPanic = FALSE
    /\ wTorn = FALSE

\* the environment produces one more event of kind e, within the bound
Event(e) == wEnv[e] < MaxEvents /\ wEnv' = [wEnv EXCEPT ![e] = @ + 1]

\* the server's end can write and read: the process runs and the connection is open
WsUsable == ~wPanic /\ wWs = "open"

\* the accept loop: conn, err := ln.Accept(); the two goroutines of the visitor start
AcceptVisitor(v) ==
    /\ ~wPanic
    /\ wVisitor[v] = "none"
    /\ \A u \in Visitors : u < v => wVisitor[u] # "none"
    /\ wVisitor' = [wVisitor EXCEPT ![v] = "open"]
    /\ UNCHANGED <<wMute, wIn, wSent, wInside, wUp, wCli, wDown, wGot, wPing, wTick, wEnv,
                   wWs, wPanic, wTorn>>
    /\ UNCHANGED outsideShared

\* a visitor sends a chunk of its request
VisitorWrites(v) ==
    /\ ~wPanic
    /\ wVisitor[v] = "open"
    /\ wIn[v] = 0
    /\ wSent[v] < MaxSends
    /\ wIn' = [wIn EXCEPT ![v] = 1]
    /\ wSent' = [wSent EXCEPT ![v] = @ + 1]
    /\ UNCHANGED <<wMute, wVisitor, wInside, wUp, wCli, wDown, wGot, wPing, wTick, wEnv,
                   wWs, wPanic, wTorn>>
    /\ UNCHANGED outsideShared

\* the end of a conn.WriteMessage of writer w, beside the writers still inside theirs
WriteMessageEnd(w) ==
    /\ w \in wInside
    /\ wInside' = wInside \ {w}
    /\ IF wInside \ {w} = {}
       THEN UNCHANGED <<wPanic, wTorn>>
       ELSE \/ wPanic' = TRUE /\ UNCHANGED wTorn
            \/ wTorn' = TRUE /\ UNCHANGED wPanic
            \/ UNCHANGED <<wPanic, wTorn>>

\* a visitor's goroutine: n, err := c.Read(buf); wsConn.WriteMessage(BinaryMessage, ...)
\* is entered
ReadConn(v) ==
    /\ WsUsable
    /\ wVisitor[v] = "open"
    /\ wIn[v] > 0
    /\ DataWriter(v) \notin wInside
    /\ wIn' = [wIn EXCEPT ![v] = 0]
    /\ wInside' = wInside \cup {DataWriter(v)}
    /\ UNCHANGED <<wMute, wVisitor, wSent, wUp, wCli, wDown, wGot, wPing, wTick, wEnv, wWs,
                   wPanic, wTorn>>
    /\ UNCHANGED outsideShared

\* a visitor's goroutine: wsConn.WriteMessage returns; the message is on its way
ReadConnWritten(v) ==
    /\ WsUsable
    /\ WriteMessageEnd(DataWriter(v))
    /\ wUp' = IF wPanic' THEN wUp ELSE Append(wUp, v)
    /\ UNCHANGED <<wMute, wVisitor, wIn, wSent, wCli, wDown, wGot, wPing, wTick, wEnv, wWs>>
    /\ UNCHANGED outsideShared

\* a visitor's goroutine: wsConn.WriteMessage fails on the closed connection: return;
\* the deferred c.Close() and connCancel() run
ReadConnWriteFail(v) ==
    /\ ~wPanic
    /\ wWs = "closed"
    /\ wVisitor[v] = "open"
    /\ wIn[v] > 0
    /\ wIn' = [wIn EXCEPT ![v] = 0]
    /\ wVisitor' = [wVisitor EXCEPT ![v] = "closed"]
    /\ UNCHANGED <<wMute, wSent, wInside, wUp, wCli, wDown, wGot, wPing, wTick, wEnv, wWs,
                   wPanic, wTorn>>
    /\ UNCHANGED outsideShared

\* 30 seconds pass: pingTicker puts a tick into its channel
SharedTick ==
    /\ ~wPanic
    /\ Event("tick")
    /\ ~wTick
    /\ wTick' = TRUE
    /\ UNCHANGED <<wMute, wVisitor, wIn, wSent, wInside, wUp, wCli, wDown, wGot, wPing, wWs,
                   wPanic, wTorn>>
    /\ UNCHANGED outsideShared

\* the ping goroutine: case <-pingTicker.C: conn.WriteMessage(PingMessage, ...) is entered
PingWrite ==
    /\ WsUsable
    /\ wTick
    /\ PingWriter \notin wInside
    /\ wTick' = FALSE
    /\ wInside' = wInside \cup {PingWriter}
    /\ UNCHANGED <<wMute, wVisitor, wIn, wSent, wUp, wCli, wDown, wGot, wPing, wEnv, wWs,
                   wPanic, wTorn>>
    /\ UNCHANGED outsideShared

\* the ping goroutine: conn.WriteMessage returns
PingWritten ==
    /\ WsUsable
    /\ WriteMessageEnd(PingWriter)
    /\ UNCHANGED <<wMute, wVisitor, wIn, wSent, wUp, wCli, wDown, wGot, wPing, wTick, wEnv,
                   wWs>>
    /\ UNCHANGED outsideShared

\* the goroutine that reads the WebSocket connection for visitor v is in
\* wsConn.ReadMessage()
InReadMessage(v) == WsUsable /\ wVisitor[v] = "open" /\ PongWriter(v) \notin wInside

\* wsConn.ReadMessage() of visitor v's goroutine reads a ping of the client: the ping
\* handler runs and conn.WriteMessage(PongMessage, appData) is entered
ReadPing(v) ==
    /\ InReadMessage(v)
    /\ wPing
    /\ wPing' = FALSE
    /\ wInside' = wInside \cup {PongWriter(v)}
    /\ UNCHANGED <<wMute, wVisitor, wIn, wSent, wUp, wCli, wDown, wGot, wTick, wEnv, wWs,
                   wPanic, wTorn>>
    /\ UNCHANGED outsideShared

\* the ping handler: conn.WriteMessage returns
PongWritten(v) ==
    /\ WsUsable
    /\ WriteMessageEnd(PongWriter(v))
    /\ UNCHANGED <<wMute, wVisitor, wIn, wSent, wUp, wCli, wDown, wGot, wPing, wTick, wEnv,
                   wWs>>
    /\ UNCHANGED outsideShared

\* wsConn.ReadMessage() of visitor v's goroutine returns a binary message;
\* c.Write(message) writes it to visitor v's connection
ReadBinary(v) ==
    /\ InReadMessage(v)
    /\ wDown # <<>>
    /\ Head(wDown)[1] = "binary"
    /\ wDown' = Tail(wDown)
    /\ wGot' = [wGot EXCEPT ![v] = Append(@, Head(wDown)[2])]
    /\ UNCHANGED <<wMute, wVisitor, wIn, wSent, wInside, wUp, wCli, wPing, wTick, wEnv, wWs,
                   wPanic, wTorn>>
    /\ UNCHANGED outsideShared

\* wsConn.ReadMessage() of visitor v's goroutine returns a message that is not binary:
\* if messageType != websocket.BinaryMessage { continue }
ReadOther(v) ==
    /\ InReadMessage(v)
    /\ wDown # <<>>
    /\ Head(wDown)[1] # "binary"
    /\ wDown' = Tail(wDown)
    /\ UNCHANGED <<wMute, wVisitor, wIn, wSent, wInside, wUp, wCli, wGot, wPing, wTick, wEnv,
                   wWs, wPanic, wTorn>>
    /\ UNCHANGED outsideShared

\* the client's Start: case message := <-messageChan: handleMessage(message) is
\* entered: net.Dial, localConn.Write(message), and the wait in localConn.Read(buf)
HandleMessageBegin ==
    /\ wWs = "open"
    /\ wCli = 0
    /\ wUp # <<>>
    /\ wCli' = Head(wUp)
    /\ wUp' = Tail(wUp)
    /\ UNCHANGED <<wMute, wVisitor, wIn, wSent, wInside, wDown, wGot, wPing, wTick, wEnv, wWs,
                   wPanic, wTorn>>
    /\ UNCHANGED outsideShared

\* handleMessage: localConn.Read(buf) returns the local service's response;
\* h.wsConn.WriteMessage(buf[:n]); handleMessage returns to Start's select
HandleMessageEnd ==
    /\ wWs = "open"
    /\ wCli # 0
    /\ wCli \notin wMute
    /\ wDown' = Append(wDown, <<"binary", wCli>>)
    /\ wCli' = 0
    /\ UNCHANGED <<wMute, wVisitor, wIn, wSent, wInside, wUp, wGot, wPing, wTick, wEnv, wWs,
                   wPanic, wTorn>>
    /\ UNCHANGED outsideShared

\* the client's end sends a ping, which arrives at the server
PeerPing ==
    /\ WsUsable
    /\ Event("ping")
    /\ ~wPing
    /\ wPing' = TRUE
    /\ UNCHANGED <<wMute, wVisitor, wIn, wSent, wInside, wUp, wCli, wDown, wGot, wTick, wWs,
                   wPanic, wTorn>>
    /\ UNCHANGED outsideShared

\* the client's end sends a text frame during the data phase
PeerText ==
    /\ WsUsable
    /\ Event("text")
    /\ wDown' = Append(wDown, <<"text", 0>>)
    /\ UNCHANGED <<wMute, wVisitor, wIn, wSent, wInside, wUp, wCli, wGot, wPing, wTick, wWs,
                   wPanic, wTorn>>
    /\ UNCHANGED outsideShared

\* the connection drops: every later read and write on it fails
WsDrop ==
    /\ WsUsable
    /\ Event("drop")
    /\ wWs' = "closed"
    /\ wInside' = {}
    /\ UNCHANGED <<wMute, wVisitor, wIn, wSent, wUp, wCli, wDown, wGot, wPing, wTick,
                   wPanic, wTorn>>
    /\ UNCHANGED outsideShared

\* the steps the goroutines of the server and of the client take by themselves
SharedProgress ==
    \/ \E v \in Visitors : ReadConn(v) \/ ReadConnWritten(v) \/ ReadConnWriteFail(v)
    \/ PingWrite \/ PingWritten
    \/ \E v \in Visitors : ReadPing(v) \/ PongWritten(v) \/ ReadBinary(v) \/ ReadOther(v)
    \/ HandleMessageBegin \/ HandleMessageEnd

NextShared ==
    \/ \E v \in Visitors : AcceptVisitor(v)
    \/ \E v \in Visitors : VisitorWrites(v)
    \/ \E v \in Visitors : ReadConn(v)
    \/ \E v \in Visitors : ReadConnWritten(v)
    \/ \E v \in Visitors : ReadConnWriteFail(v)
    \/ SharedTick
    \/ PingWrite
    \/ PingWritten
    \/ \E v \in Visitors : ReadPing(v)
    \/ \E v \in Visitors : PongWritten(v)
    \/ \E v \in Visitors : ReadBinary(v)
    \/ \E v \in Visitors : ReadOther(v)
    \/ HandleMessageBegin
    \/ HandleMessageEnd
    \/ PeerPing
    \/ PeerText
    \/ WsDrop

(***************************************************************************)
(* The handshake of the TCP control-channel server.  handleClient starts   *)
(* the yamux session on the accepted connection first and then reads the   *)
(* local port from the same connection; the client writes the local port   *)
(* and then starts its yamux session.  yamux.Server starts the session's   *)
(* receive loop, a goroutine that reads the connection.  A byte of the     *)
(* connection is "p" when it is of the local port and "m" when the         *)
(* client's yamux session wrote it.                                        *)
(***************************************************************************)

\* bytes of the local port the client writes
PortLen == 3

\* bytes the client's yamux session writes during a run
MuxBytes == 3

\* len(buf) of handleClient: buf := make([]byte, 10)
HandshakeBuf == 4

\* []byte(localPort)
PortBytes == [i \in 1..PortLen |-> "p"]

InitHandleClient ==
    /\ yCli = "Dial"
    /\ ySrv = "Idle"
    /\ yWire = <<>>
    /\ yHandshake = <<>>
    /\ yMux = <<>>
    /\ ySent = 0

\* main of the client: net.Dial succeeds
ControlDial ==
    /\ yCli = "Dial"
    /\ yCli' = "SendPort"
    /\ UNCHANGED <<ySrv, yWire, yHandshake, yMux, ySent>>
    /\ UNCHANGED outsideControl

\* main of the client: conn.Write([]byte(localPort))
ControlSendPort ==
    /\ yCli = "SendPort"
    /\ yWire' = yWire \o PortBytes
    /\ yCli' = "Yamux"
    /\ UNCHANGED <<ySrv, yHandshake, yMux, ySent>>
    /\ UNCHANGED outsideControl

\* main of the client: yamux.Client(conn, nil), then the Accept loop
ControlYamuxClient ==
    /\ yCli = "Yamux"
    /\ yCli' = "Accept"
    /\ UNCHANGED <<ySrv, yWire, yHandshake, yMux, ySent>>
    /\ UNCHANGED outsideControl

\* the client's yamux session writes a byte of a frame (a keepalive ping, a window
\* update)
ControlMuxWrite ==
    /\ yCli = "Accept"
    /\ ySent < MuxBytes
    /\ ySent' = ySent + 1
    /\ yWire' = Append(yWire, "m")
    /\ UNCHANGED <<yCli, ySrv, yHandshake, yMux>>
    /\ UNCHANGED outsideControl

\* startControlServer: ln.Accept() returns the client's connection; go handleClient(conn)
ControlAccept ==
    /\ ySrv = "Idle"
    /\ yCli # "Dial"
    /\ ySrv' = "Yamux"
    /\ UNCHANGED <<yCli, yWire, yHandshake, yMux, ySent>>
    /\ UNCHANGED outsideControl

\* handleClient: session, err := yamux.Server(conn, nil): the receive loop starts
YamuxServer ==
    /\ ySrv = "Yamux"
    /\ ySrv' = "Read"
    /\ UNCHANGED <<yCli, yWire, yHandshake, yMux, ySent>>
    /\ UNCHANGED outsideControl

\* handleClient: buf := make([]byte, 10); _, err = conn.Read(buf) returns n bytes
HandshakeRead(n) ==
    /\ ySrv = "Read"
    /\ n \in 1..Len(yWire)
    /\ n <= HandshakeBuf
    /\ yHandshake' = SubSeq(yWire, 1, n)
    /\ yWire' = SubSeq(yWire, n + 1, Len(yWire))
    /\ ySrv' = "Alloc"
    /\ UNCHANGED <<yCli, yMux, ySent>>
    /\ UNCHANGED outsideControl

\* the receive loop of the server's yamux session: a read of the connection returns
\* n bytes
RecvLoopRead(n) ==
    /\ ySrv \in {"Read", "Alloc"}
    /\ n \in 1..Len(yWire)
    /\ yMux' = yMux \o SubSeq(yWire, 1, n)
    /\ yWire' = SubSeq(yWire, n + 1, Len(yWire))
    /\ UNCHANGED <<yCli, ySrv, yHandshake, ySent>>
    /\ UNCHANGED outsideControl

NextControl ==
    \/ ControlDial
    \/ ControlSendPort
    \/ ControlYamuxClient
    \/ ControlMuxWrite
    \/ ControlAccept
    \/ YamuxServer
    \/ \E n \in 1..HandshakeBuf : HandshakeRead(n)
    \/ \E n \in 1..(PortLen + MuxBytes) : RecvLoopRead(n)

(***************************************************************************)
(* The earlier iteration of the multiplexed tunnel (unnamed/part_003).     *)
(* Its /tunnel handler, its client and the first part of its proxy handler *)
(* are those of main.go; its proxy handler ends with                       *)
(*     go io.Copy(netConn, stream)                                         *)
(*     go io.Copy(stream, netConn)                                         *)
(* and closes neither the stream nor the visitor's connection after them.  *)
(***************************************************************************)

\* proxy handler of part_003: io.Copy(netConn, stream) ends because the stream is closed
\* at the client's end or the session is closed; the goroutine returns
EarlyRelayEnd(x) ==
    /\ UNCHANGED mFaults
    /\ xSrv[x] = "relay"
    /\ mLive[xSess[x]] = "closed" \/ ClientEndClosed(x)
    /\ xSrv' = [xSrv EXCEPT ![x] = "left"]
    /\ UNCHANGED <<mSessions, mPc, mId, mLive, mCli, mInfo, xSess, xCli, xResp>>
    /\ UNCHANGED outsideMux

\* proxy handler of part_003: the visitor closes or resets its connection;
\* io.Copy(stream, netConn) ends; the goroutine returns
EarlyVisitorAbort(x) ==
    /\ MuxFault
    /\ xSrv[x] = "relay"
    /\ xSrv' = [xSrv EXCEPT ![x] = "left"]
    /\ UNCHANGED <<mSessions, mPc, mId, mLive, mCli, mInfo, xSess, xCli, xResp>>
    /\ UNCHANGED outsideMux

NextEarly ==
    \/ \E s \in MuxSessions : MuxUpgradeFail(s)
    \/ \E s \in MuxSessions, id \in RandStrings(IdLen) : MuxUpgrade(s, id)
    \/ \E s \in MuxSessions : MuxRegister(s)
    \/ \E s \in MuxSessions : MuxCleanup(s)
    \/ \E s \in MuxSessions : MuxTransportFail(s)
    \/ \E s \in MuxSessions : MuxClientHandshake(s)
    \/ \E s \in MuxSessions : MuxClientHandshakeFail(s)
    \/ \E s \in MuxSessions : MuxAcceptError(s)
    \/ \E x \in Streams, id \in RandStrings(IdLen) : ProxyNotFound(x, id)
    \/ \E x \in Streams, id \in RandStrings(IdLen) : ProxyOpenFail(x, id)
    \/ \E x \in Streams, id \in RandStrings(IdLen) : ProxyOpen(x, id)
    \/ \E x \in Streams : ProxyHijackFail(x)
    \/ \E x \in Streams : ProxyForward(x)
    \/ \E x \in Streams : ProxyForwardFail(x)
    \/ \E x \in Streams : EarlyRelayEnd(x)
    \/ \E x \in Streams : EarlyVisitorAbort(x)
    \/ \E x \in Streams : ClientAccept(x)
    \/ \E x \in Streams : HandleStreamDial(x)
    \/ \E x \in Streams : HandleStreamDialFail(x)
    \/ \E x \in Streams : RelayChunk(x)
    \/ \E x \in Streams : HandleStreamReturn(x)
    \/ \E x \in Streams : LocalServiceFail(x)

(***************************************************************************)
(* The single-connection WebSocket client (main of client/client.go) from  *)
(* its first connection on.  The reader goroutines and the ping goroutine  *)
(* are closures over main's variable conn: each of their calls uses the    *)
(* connection that conn refers to at the time of the call.  log.Fatal and  *)
(* main's return end the process and with it every goroutine.              *)
(***************************************************************************)

\* connections the client makes during a run, the first one included
MaxGen == 3

\* ticks of pingTicker during a run
MaxTicks == 2

Gens == 1..MaxGen

\* main after connectToServer has succeeded for the first time, the ticker, connCtx,
\* the ping goroutine and the first reader goroutine started
InitMain ==
    /\ kMain = "select"
    /\ kI = 0
    /\ kConn = 1
    /\ kOpen = {1}
    /\ kReader = [g \in Gens |-> IF g = 1 THEN "reading" ELSE "none"]
    /\ kPinger = "running"
    /\ kTick = FALSE
    /\ kTicks = 0
    /\ kCtxDone = FALSE
    /\ kCancelBy = 0
    /\ kServed = FALSE

\* the process runs: main has neither returned nor called log.Fatal
MainRuns == kMain \in {"select", "reconnect"}

\* the connection that conn refers to fails (the server or the network drops it)
ConnDrop ==
    /\ MainRuns
    /\ kConn \in kOpen
    /\ kOpen' = kOpen \ {kConn}
    /\ UNCHANGED <<kMain, kI, kConn, kReader, kPinger, kTick, kTicks, kCtxDone, kCancelBy,
                   kServed>>
    /\ UNCHANGED outsideKeep

\* reader goroutine: conn.ReadMessage() returns a binary message; messageChan <- message
ReaderMessage(g) ==
    /\ MainRuns
    /\ kReader[g] = "reading"
    /\ kConn \in kOpen
    /\ kReader' = [kReader EXCEPT ![g] = "sendMsg"]
    /\ UNCHANGED <<kMain, kI, kConn, kOpen, kPinger, kTick, kTicks, kCtxDone, kCancelBy,
                   kServed>>
    /\ UNCHANGED outsideKeep

\* reader goroutine: conn.ReadMessage() returns an error; errorChan <- err
ReaderError(g) ==
    /\ MainRuns
    /\ kReader[g] = "reading"
    /\ kConn \notin kOpen
    /\ kReader' = [kReader EXCEPT ![g] = "sendErr"]
    /\ UNCHANGED <<kMain, kI, kConn, kOpen, kPinger, kTick, kTicks, kCtxDone, kCancelBy,
                   kServed>>
    /\ UNCHANGED outsideKeep

\* main: case message := <-messageChan, the message handled to the end of the case;
\* the reader goes back to conn.ReadMessage()
MainMessage(g) ==
    /\ kMain = "select"
    /\ kReader[g] = "sendMsg"
    /\ kReader' = [kReader EXCEPT ![g] = "reading"]
    /\ kServed' = TRUE
    /\ UNCHANGED <<kMain, kI, kConn, kOpen, kPinger, kTick, kTicks, kCtxDone, kCancelBy>>
    /\ UNCHANGED outsideKeep

\* main: case err := <-errorChan; the reader returns, main enters the reconnect loop
MainError(g) ==
    /\ kMain = "select"
    /\ kReader[g] = "sendErr"
    /\ kReader' = [kReader EXCEPT ![g] = "done"]
    /\ kMain' = "reconnect"
    /\ kI' = 0
    /\ UNCHANGED <<kConn, kOpen, kPinger, kTick, kTicks, kCtxDone, kCancelBy, kServed>>
    /\ UNCHANGED outsideKeep

\* reconnect loop: connectToServer succeeds; conn is assigned, a reader goroutine is
\* started, break, and main is back at its select
ReconnectOk ==
    /\ kMain = "reconnect"
    /\ kConn < MaxGen
    /\ kConn' = kConn + 1
    /\ kOpen' = kOpen \cup {kConn + 1}
    /\ kReader' = [kReader EXCEPT ![kConn + 1] = "reading"]
    /\ kMain' = "select"
    /\ kServed' = FALSE
    /\ UNCHANGED <<kI, kPinger, kTick, kTicks, kCtxDone, kCancelBy>>
    /\ UNCHANGED outsideKeep

\* reconnect loop: connectToServer fails; sleep, and after the fifth failure
\* log.Fatal("Failed to reconnect after retries")
ReconnectFail ==
    /\ kMain = "reconnect"
    /\ IF kI = MaxAttempts - 1
          THEN kMain' = "fatal" /\ kI' = kI
          ELSE kMain' = kMain /\ kI' = kI + 1
    /\ UNCHANGED <<kConn, kOpen, kReader, kPinger, kTick, kTicks, kCtxDone, kCancelBy,
                   kServed>>
    /\ UNCHANGED outsideKeep

\* pingTicker fires
KeepTick ==
    /\ MainRuns
    /\ kTicks < MaxTicks
    /\ ~kTick
    /\ kTick' = TRUE
    /\ kTicks' = kTicks + 1
    /\ UNCHANGED <<kMain, kI, kConn, kOpen, kReader, kPinger, kCtxDone, kCancelBy, kServed>>
    /\ UNCHANGED outsideKeep

\* ping goroutine: case <-pingTicker.C, conn.WriteMessage(PingMessage) succeeds
KeepPing ==
    /\ MainRuns
    /\ kPinger = "running"
    /\ kTick
    /\ kConn \in kOpen
    /\ kTick' = FALSE
    /\ UNCHANGED <<kMain, kI, kConn, kOpen, kReader, kPinger, kTicks, kCtxDone, kCancelBy,
                   kServed>>
    /\ UNCHANGED outsideKeep

\* ping goroutine: case <-pingTicker.C, conn.WriteMessage(PingMessage) fails: cancel(),
\* return
KeepPingFail ==
    /\ MainRuns
    /\ kPinger = "running"
    /\ kTick
    /\ kConn \notin kOpen
    /\ kTick' = FALSE
    /\ kCtxDone' = TRUE
    /\ kCancelBy' = kConn
    /\ kPinger' = "done"
    /\ UNCHANGED <<kMain, kI, kConn, kOpen, kReader, kTicks, kServed>>
    /\ UNCHANGED outsideKeep

\* main: case <-connCtx.Done(): log "Connection closed", return; the deferred
\* conn.Close() closes the connection that conn refers to
MainCtxDone ==
    /\ kMain = "select"
    /\ kCtxDone
    /\ kMain' = "returned"
    /\ kOpen' = kOpen \ {kConn}
    /\ UNCHANGED <<kI, kConn, kReader, kPinger, kTick, kTicks, kCtxDone, kCancelBy, kServed>>
    /\ UNCHANGED outsideKeep

NextKeep ==
    \/ ConnDrop
    \/ \E g \in Gens : ReaderMessage(g)
    \/ \E g \in Gens : ReaderError(g)
    \/ \E g \in Gens : MainMessage(g)
    \/ \E g \in Gens : MainError(g)
    \/ ReconnectOk
    \/ ReconnectFail
    \/ KeepTick
    \/ KeepPing
    \/ KeepPingFail
    \/ MainCtxDone

(***************************************************************************)
(* The registry of package tunnel under the handlers of several sessions.  *)
(* Each session's goroutine takes its Handler through its life: AssignPort,*)
(* RegisterHost and SetDomain for the assigned port, then Close, which may *)
(* be called again.  AssignPort and ReleasePort run under portMutex and    *)
(* are single steps; RegisterHost and UnregisterHost write hostMap with no *)
(* lock, so each has a beginning and an end between which the other        *)
(* sessions run.                                                           *)
(***************************************************************************)

\* sessions that use the registry during a run
NumSessions == 2

Sessions == 1..NumSessions

InitSessions ==
    /\ gNextPort = PortFloor
    /\ gActivePorts = {}
    /\ gHostMap = EmptyMap
    /\ gPc = [h \in Sessions |-> "New"]
    /\ gPort = [h \in Sessions |-> 0]
    /\ gDomain = [h \in Sessions |-> <<>>]
    /\ gWriting = {}
    /\ gCrashed = FALSE

\* Handler.AssignPort, with its h.wsConn.SetPort(port)
SessAssignPort(h) ==
    /\ ~gCrashed
    /\ gPc[h] = "New"
    /\ LET port == ScanIn(gActivePorts, gNextPort)
       IN  /\ gNextPort' = port + 1
           /\ gActivePorts' = gActivePorts \cup {port}
           /\ gPort' = [gPort EXCEPT ![h] = port]
    /\ gPc' = [gPc EXCEPT ![h] = "Assigned"]
    /\ UNCHANGED <<gHostMap, gDomain, gWriting, gCrashed>>
    /\ UNCHANGED outsideSess

\* Handler.RegisterHost: hostMap[host] = port begins
SessRegisterBegin(h) ==
    /\ ~gCrashed
    /\ gPc[h] = "Assigned"
    /\ gWriting' = gWriting \cup {h}
    /\ gPc' = [gPc EXCEPT ![h] = "Registering"]
    /\ UNCHANGED <<gNextPort, gActivePorts, gHostMap, gPort, gDomain, gCrashed>>
    /\ UNCHANGED outsideSess

\* Handler.RegisterHost: hostMap[host] = port ends, and wsConn.SetDomain(host).  A write
\* that overlaps another session's write of hostMap is a data race on a Go map: the
\* runtime's check ends the process, or the check misses and the entry is stored or lost
SessRegisterEnd(h) ==
    /\ ~gCrashed
    /\ gPc[h] = "Registering"
    /\ gWriting' = gWriting \ {h}
    /\ gDomain' = [gDomain EXCEPT ![h] = Subdomain(gPort[h])]
    /\ gPc' = [gPc EXCEPT ![h] = "Up"]
    /\ \/ /\ gHostMap' = MapPut(gHostMap, Subdomain(gPort[h]), gPort[h])
          /\ gCrashed' = gCrashed
       \/ /\ gWriting \ {h} # {}
          /\ \/ gCrashed' = TRUE /\ gHostMap' = gHostMap
             \/ gCrashed' = gCrashed /\ gHostMap' = gHostMap
    /\ UNCHANGED <<gNextPort, gActivePorts, gPort>>
    /\ UNCHANGED outsideSess

\* Handler.Close: h.cancel(), and ReleasePort(port) when the port of wsConn is set
SessClose(h) ==
    /\ ~gCrashed
    /\ gPc[h] \in {"Up", "Closed"}
    /\ gActivePorts' = IF gPort[h] # 0 THEN gActivePorts \ {gPort[h]} ELSE gActivePorts
    /\ gPc' = [gPc EXCEPT ![h] = "Released"]
    /\ UNCHANGED <<gNextPort, gHostMap, gPort, gDomain, gWriting, gCrashed>>
    /\ UNCHANGED outsideSess

\* Handler.Close: UnregisterHost(domain) when the domain of wsConn is set:
\* delete(hostMap, host) begins
SessUnregisterBegin(h) ==
    /\ ~gCrashed
    /\ gPc[h] = "Released"
    /\ gDomain[h] # <<>>
    /\ gWriting' = gWriting \cup {h}
    /\ gPc' = [gPc EXCEPT ![h] = "Unregistering"]
    /\ UNCHANGED <<gNextPort, gActivePorts, gHostMap, gPort, gDomain, gCrashed>>
    /\ UNCHANGED outsideSess

\* Handler.Close: delete(hostMap, host) ends, h.wsConn.Close().  A delete that overlaps
\* another session's write of hostMap is a data race on a Go map: the runtime's check
\* ends the process, or the check misses and the delete takes effect or is lost
SessUnregisterEnd(h) ==
    /\ ~gCrashed
    /\ gPc[h] = "Unregistering"
    /\ gWriting' = gWriting \ {h}
    /\ gPc' = [gPc EXCEPT ![h] = "Closed"]
    /\ \/ /\ gHostMap' = MapDelete(gHostMap, gDomain[h])
          /\ gCrashed' = gCrashed
       \/ /\ gWriting \ {h} # {}
          /\ \/ gCrashed' = TRUE /\ gHostMap' = gHostMap
             \/ gCrashed' = gCrashed /\ gHostMap' = gHostMap
    /\ UNCHANGED <<gNextPort, gActivePorts, gPort, gDomain>>
    /\ UNCHANGED outsideSess

NextSess ==
    \E h \in Sessions :
        \/ SessAssignPort(h)
        \/ SessRegisterBegin(h)
        \/ SessRegisterEnd(h)
        \/ SessClose(h)
        \/ SessUnregisterBegin(h)
        \/ SessUnregisterEnd(h)

(***************************************************************************)
(* One tunnel Handler of the server (server/tunnel/handler.go): Start in   *)
(* its select loop, the readMessages goroutine it started, the peer, and a *)
(* goroutine that calls Close.  messageChan and errorChan are unbuffered:  *)
(* a send completes only in the step in which Start receives it.  What     *)
(* Close does to the registry is SessClose's; here it cancels and closes.  *)
(***************************************************************************)

\* the frames the peer sends before it stops
MaxPeerFrames == 2

\* the websocket message types ReadMessage tells apart
FrameTypes == {"binary", "text"}

\* NewHandler, then Start up to its select: the channels are made, readMessages is started
InitStart ==
    /\ hStart = "select"
    /\ hReader = "check"
    /\ hCtxDone = FALSE
    /\ hWs = "open"
    /\ hWire = <<>>
    /\ hSent = 0
    /\ hHandled = 0
    /\ hCloser = "idle"

\* the peer writes a frame
PeerFrame(t) ==
    /\ hWs = "open"
    /\ hSent < MaxPeerFrames
    /\ hWire' = Append(hWire, t)
    /\ hSent' = hSent + 1
    /\ UNCHANGED <<hStart, hReader, hCtxDone, hWs, hHandled, hCloser>>
    /\ UNCHANGED outsideStop

\* the peer goes away
PeerGone ==
    /\ hWs = "open"
    /\ hWs' = "broken"
    /\ UNCHANGED <<hStart, hReader, hCtxDone, hWire, hSent, hHandled, hCloser>>
    /\ UNCHANGED outsideStop

\* readMessages: select, case <-h.ctx.Done(): return
ReaderSeesDone ==
    /\ hReader = "check"
    /\ hCtxDone
    /\ hReader' = "done"
    /\ UNCHANGED <<hStart, hCtxDone, hWs, hWire, hSent, hHandled, hCloser>>
    /\ UNCHANGED outsideStop

\* readMessages: select, default: (taken only when no case is ready) it calls ReadMessage
ReaderEntersRead ==
    /\ hReader = "check"
    /\ ~hCtxDone
    /\ hReader' = "reading"
    /\ UNCHANGED <<hStart, hCtxDone, hWs, hWire, hSent, hHandled, hCloser>>
    /\ UNCHANGED outsideStop

\* Connection.ReadMessage returns a frame: a binary one as the message, so that
\* readMessages goes to messageChan <- message; any other as nil, back to the select
ReaderReadFrame ==
    /\ hReader = "reading"
    /\ hWs # "closed"
    /\ hWire # <<>>
    /\ hWire' = Tail(hWire)
    /\ hReader' = IF Head(hWire) = "binary" THEN "sendMsg" ELSE "check"
    /\ UNCHANGED <<hStart, hCtxDone, hWs, hSent, hHandled, hCloser>>
    /\ UNCHANGED outsideStop

\* Connection.ReadMessage returns an error: readMessages goes to errorChan <- err
ReaderReadError ==
    /\ hReader = "reading"
    /\ \/ hWs = "closed"
       \/ hWs = "broken" /\ hWire = <<>>
    /\ hReader' = "sendErr"
    /\ UNCHANGED <<hStart, hCtxDone, hWs, hWire, hSent, hHandled, hCloser>>
    /\ UNCHANGED outsideStop

\* Start: case message := <-messageChan: handleMessage(message); the send completes
StartMessage ==
    /\ hStart = "select"
    /\ hReader = "sendMsg"
    /\ hReader' = "check"
    /\ hHandled' = hHandled + 1
    /\ UNCHANGED <<hStart, hCtxDone, hWs, hWire, hSent, hCloser>>
    /\ UNCHANGED outsideStop

\* Start: case err := <-errorChan: h.Close(); return.  The send completes and
\* readMessages returns; Close cancels h.ctx and closes wsConn
StartError ==
    /\ hStart = "select"
    /\ hReader = "sendErr"
    /\ hReader' = "done"
    /\ hCtxDone' = TRUE
    /\ hWs' = "closed"
    /\ hStart' = "returned"
    /\ UNCHANGED <<hWire, hSent, hHandled, hCloser>>
    /\ UNCHANGED outsideStop

\* Start: case <-h.ctx.Done(): return
StartCtxDone ==
    /\ hStart = "select"
    /\ hCtxDone
    /\ hStart' = "returned"
    /\ UNCHANGED <<hReader, hCtxDone, hWs, hWire, hSent, hHandled, hCloser>>
    /\ UNCHANGED outsideStop

\* Close, called from another goroutine: h.cancel()
CloseCancel ==
    /\ hCloser = "idle"
    /\ hCtxDone' = TRUE
    /\ hCloser' = "cancelled"
    /\ UNCHANGED <<hStart, hReader, hWs, hWire, hSent, hHandled>>
    /\ UNCHANGED outsideStop

\* Close, called from another goroutine: h.wsConn.Close(), its last statement
CloseConn ==
    /\ hCloser = "cancelled"
    /\ hWs' = "closed"
    /\ hCloser' = "done"
    /\ UNCHANGED <<hStart, hReader, hCtxDone, hWire, hSent, hHandled>>
    /\ UNCHANGED outsideStop

NextStop ==
    \/ \E t \in FrameTypes : PeerFrame(t)
    \/ PeerGone
    \/ ReaderSeesDone
    \/ ReaderEntersRead
    \/ ReaderReadFrame
    \/ ReaderReadError
    \/ StartMessage
    \/ StartError
    \/ StartCtxDone
    \/ CloseCancel
    \/ CloseConn

(***************************************************************************)
(* The specifications.  Each one starts the program it is about and leaves *)
(* the others as they are before anything connects to them.                *)
(***************************************************************************)

ServerIdle == InitServer(<<>>) /\ InitClient

MuxIdle == InitMuxWith({}, {})

ReadIdle == InitReadWith(<<>>)

RelayIdle == InitRelayWith(0)

ProbeIdle == InitProbeWith("main")

SharedIdle == InitSharedWith({})

ControlIdle == InitHandleClient

\* Caddy before any tunnel server has posted a route to it
CaddyIdle == routes = {}

KeepIdle == InitMain

SessIdle == InitSessions

StopIdle == InitStart

Init ==
    /\ InitServer([h \in 1..NumConns |-> "other"])
    /\ InitClient
    /\ InitTunnel /\ MuxIdle /\ ReadIdle /\ RelayIdle /\ ProbeIdle /\ SharedIdle /\ ControlIdle
    /\ CaddyIdle /\ KeepIdle /\ SessIdle /\ StopIdle

\* the reconnecting client's connections
InitClientOnly ==
    /\ InitServer([h \in 1..ClientConns |-> "client"])
    /\ InitClient
    /\ InitTunnel /\ MuxIdle /\ ReadIdle /\ RelayIdle /\ ProbeIdle /\ SharedIdle /\ ControlIdle
    /\ CaddyIdle /\ KeepIdle /\ SessIdle /\ StopIdle

\* the reconnecting client's connections and one of another client
InitReconnect ==
    /\ InitServer([h \in 1..(ClientConns + 1) |-> IF h <= ClientConns THEN "client" ELSE "other"])
    /\ InitClient
    /\ InitTunnel /\ MuxIdle /\ ReadIdle /\ RelayIdle /\ ProbeIdle /\ SharedIdle /\ ControlIdle
    /\ CaddyIdle /\ KeepIdle /\ SessIdle /\ StopIdle

Next == OthersNext \/ HandlerNext

Spec == Init /\ [][Next]_allVars

NextClient == ClientNext \/ HandlerNext

SpecClient == InitClientOnly /\ [][NextClient]_allVars

NextReconnect == ClientNext \/ HandlerNext \/ OthersNext

SpecReconnect == InitReconnect /\ [][NextReconnect]_allVars

(***************************************************************************)
(* The scheduling of the server: a goroutine that can take its next step   *)
(* takes it (the Go scheduler runs every runnable goroutine).  Failures of *)
(* the environment are not forced.                                         *)
(***************************************************************************)
Progress ==
    \E h \in Handlers :
        \/ ReadPort(h)
        \/ AllocLock(h)
        \/ AllocCommit(h)
        \/ HostMapBegin(h)
        \/ HostMapEnd(h)
        \/ SendDomain(h)
        \/ ConfigureCaddy(h)
        \/ StartListener(h)
        \/ PortListen(h)
        \/ WaitDone(h)

FairSpec == Spec /\ WF_allVars(Progress)

InitHandler ==
    /\ InitTunnel
    /\ ServerIdle /\ MuxIdle /\ ReadIdle /\ RelayIdle /\ ProbeIdle /\ SharedIdle /\ ControlIdle
    /\ CaddyIdle /\ KeepIdle /\ SessIdle /\ StopIdle

SpecHandler == InitHandler /\ [][NextHandler]_allVars

InitTop ==
    /\ InitCeiling
    /\ ServerIdle /\ MuxIdle /\ ReadIdle /\ RelayIdle /\ ProbeIdle /\ SharedIdle /\ ControlIdle
    /\ CaddyIdle /\ KeepIdle /\ SessIdle /\ StopIdle

SpecCeiling == InitTop /\ [][NextCeiling]_allVars

\* two or more tunnel connections and one visitor's request
InitMux ==
    /\ InitMuxWith(1..MuxConns, {1})
    /\ ServerIdle /\ InitTunnel /\ ReadIdle /\ RelayIdle /\ ProbeIdle /\ SharedIdle /\ ControlIdle
    /\ CaddyIdle /\ KeepIdle /\ SessIdle /\ StopIdle

SpecMux == InitMux /\ [][NextMux]_allVars

\* one tunnel connection and two or more visitors' requests
InitStreams ==
    /\ InitMuxWith({1}, 1..MuxStreams)
    /\ ServerIdle /\ InitTunnel /\ ReadIdle /\ RelayIdle /\ ProbeIdle /\ SharedIdle /\ ControlIdle
    /\ CaddyIdle /\ KeepIdle /\ SessIdle /\ StopIdle

SpecStreams == InitStreams /\ [][NextMux]_allVars

\* the steps that the goroutines of the multiplexed server and of its client take by
\* themselves
StreamProgress ==
    \/ \E s \in MuxSessions : MuxRegister(s) \/ MuxCleanup(s) \/ MuxClientHandshake(s)
    \/ \E s \in MuxSessions : MuxAcceptError(s)
    \/ \E x \in Streams : ProxyForward(x) \/ ProxyForwardFail(x) \/ ProxyRelayEnd(x)
    \/ \E x \in Streams : ClientAccept(x) \/ HandleStreamDial(x) \/ RelayChunk(x)
    \/ \E x \in Streams : HandleStreamReturn(x)

\* the scheduling of the streams: a goroutine that can take its next step takes it
FairStreams == SpecStreams /\ WF_allVars(StreamProgress)

\* the earlier iteration with one tunnel connection and two or more visitors' requests
SpecEarly == InitStreams /\ [][NextEarly]_allVars

\* the steps that the goroutines of the earlier iteration take by themselves
EarlyProgress ==
    \/ \E s \in MuxSessions : MuxRegister(s) \/ MuxCleanup(s) \/ MuxClientHandshake(s)
    \/ \E s \in MuxSessions : MuxAcceptError(s)
    \/ \E x \in Streams : ProxyForward(x) \/ ProxyForwardFail(x) \/ EarlyRelayEnd(x)
    \/ \E x \in Streams : ClientAccept(x) \/ HandleStreamDial(x) \/ RelayChunk(x)
    \/ \E x \in Streams : HandleStreamReturn(x)

FairEarly == SpecEarly /\ WF_allVars(EarlyProgress)

\* the messages of a run, drawn from the plans
InitRead ==
    /\ \E plan \in FramePlans : InitReadWith(plan)
    /\ ServerIdle /\ InitTunnel /\ MuxIdle /\ RelayIdle /\ ProbeIdle /\ SharedIdle /\ ControlIdle
    /\ CaddyIdle /\ KeepIdle /\ SessIdle /\ StopIdle

SpecRead == InitRead /\ [][NextRead]_allVars

\* a visitor that sends up to MaxBytes bytes over an established session
InitRelay ==
    /\ \E n \in 0..MaxBytes : InitRelayWith(n)
    /\ ServerIdle /\ InitTunnel /\ MuxIdle /\ ReadIdle /\ ProbeIdle /\ SharedIdle /\ ControlIdle
    /\ CaddyIdle /\ KeepIdle /\ SessIdle /\ StopIdle

SpecRelay == InitRelay /\ [][NextRelay]_allVars

\* the scheduling of the relay: a goroutine that can take its next step takes it
FairRelay == SpecRelay /\ WF_allVars(RelayProgress)

\* an established session with either client
InitProbe ==
    /\ \E kind \in ClientKinds : InitProbeWith(kind)
    /\ ServerIdle /\ InitTunnel /\ MuxIdle /\ ReadIdle /\ RelayIdle /\ SharedIdle /\ ControlIdle
    /\ CaddyIdle /\ KeepIdle /\ SessIdle /\ StopIdle

SpecProbe == InitProbe /\ [][NextProbe]_allVars

\* the scheduling of the probing: time passes, and a goroutine that can take its
\* next step takes it
FairProbe ==
    /\ SpecProbe
    /\ WF_allVars(Elapse)
    /\ WF_allVars(HandleTunnelReturn)
    /\ \A e \in Ends :
        /\ WF_allVars(StartProber(e))
        /\ WF_allVars(WritePing(e))
        /\ WF_allVars(WritePingClosed(e))
        /\ WF_allVars(AnswerPing(e))

\* a session with visitors to come, and a local service that never answers some of them
InitShared ==
    /\ \E mute \in SUBSET Visitors : InitSharedWith(mute)
    /\ ServerIdle /\ InitTunnel /\ MuxIdle /\ ReadIdle /\ RelayIdle /\ ProbeIdle /\ ControlIdle
    /\ CaddyIdle /\ KeepIdle /\ SessIdle /\ StopIdle

SpecShared == InitShared /\ [][NextShared]_allVars

\* the scheduling of the session: a goroutine that can take its next step takes it
FairShared == SpecShared /\ WF_allVars(SharedProgress)

InitControl ==
    /\ InitHandleClient
    /\ ServerIdle /\ InitTunnel /\ MuxIdle /\ ReadIdle /\ RelayIdle /\ ProbeIdle /\ SharedIdle
    /\ CaddyIdle /\ KeepIdle /\ SessIdle /\ StopIdle

SpecControl == InitControl /\ [][NextControl]_allVars

InitKeep ==
    /\ InitMain
    /\ ServerIdle /\ InitTunnel /\ MuxIdle /\ ReadIdle /\ RelayIdle /\ ProbeIdle /\ SharedIdle
    /\ ControlIdle /\ CaddyIdle /\ SessIdle /\ StopIdle

SpecKeep == InitKeep /\ [][NextKeep]_allVars

InitSess ==
    /\ InitSessions
    /\ ServerIdle /\ InitTunnel /\ MuxIdle /\ ReadIdle /\ RelayIdle /\ ProbeIdle /\ SharedIdle
    /\ ControlIdle /\ CaddyIdle /\ KeepIdle /\ StopIdle

SpecSess == InitSess /\ [][NextSess]_allVars

InitStop ==
    /\ InitStart
    /\ ServerIdle /\ InitTunnel /\ MuxIdle /\ ReadIdle /\ RelayIdle /\ ProbeIdle /\ SharedIdle
    /\ ControlIdle /\ CaddyIdle /\ KeepIdle /\ SessIdle

SpecStop == InitStop /\ [][NextStop]_allVars

\* the goroutines of the handler are scheduled; the peer owes nothing
StopProgress ==
    \/ ReaderSeesDone
    \/ ReaderEntersRead
    \/ ReaderReadFrame
    \/ ReaderReadError
    \/ StartMessage
    \/ StartError
    \/ StartCtxDone
    \/ CloseConn

FairStop == SpecStop /\ WF_allVars(StopProgress)

(***************************************************************************)
(* Properties of the port-registry server.                                 *)
(***************************************************************************)

\* the handlers that hold an allocation: activePorts[serverPort] = true was executed
Holders == {h \in Handlers : pc[h] \in AfterCommit}

\* C1 (port uniqueness): in every interleaving of the handshakes, no two handlers
\* that have allocated hold the same port, and a handler that has picked its port
\* under portMutex and not yet marked it has picked a port no handler holds.
C1_PortUniqueness ==
    /\ \A g, h \in Holders : g # h => serverPort[g] # serverPort[h]
    /\ \A h \in Handlers : pc[h] = "Commit" => serverPort[h] \notin activePorts

\* two sessions hold their ports at the same time, both still open
C1_TwoLiveSessions ==
    \E g, h \in Holders :
        /\ g # h
        /\ pc[g] \notin Returned
        /\ pc[h] \notin Returned

\* C4 (registry release on teardown): once a handler that holds an allocation has
\* returned, its port is eventually not marked active and its identity is eventually
\* not in hostMap.
C4_ReleasedOnTeardown ==
    \A h \in 1..NumConns :
        [](pc[h] \in Returned /\ serverPort[h] # 0
             => <>(/\ serverPort[h] \notin activePorts
                   /\ Subdomain(serverPort[h]) \notin DOMAIN hostMap))

\* C5 (handshake timeout): a handler that waits for the port message, or whose read
\* of it failed, holds no port, and the registry is what the handlers that did
\* allocate account for: activePorts is their ports, every key of hostMap is the
\* identity of one of them, nextPort has advanced once for each of them.
C5_NoAllocationBeforePort ==
    \A h \in Handlers :
        pc[h] \in {"ReadPort", "RetRead"} =>
            /\ serverPort[h] = 0
            /\ activePorts = {serverPort[g] : g \in Holders}
            /\ DOMAIN hostMap \subseteq
                 {Subdomain(serverPort[g]) : g \in {k \in Handlers : pc[k] \in AfterHostMapBegin}}
            /\ nextPort = PortFloor + Cardinality(Holders)

\* a handler's read of the port message has failed while another handler holds a port
C5_FailedReadBesideAllocation ==
    \E g, h \in Handlers : pc[h] = "RetRead" /\ pc[g] \in AfterCommit

(***************************************************************************)
(* Properties of the reconnecting client.                                  *)
(***************************************************************************)

\* Reconnect has returned nil: the client is in a session made by a reconnection
Reconnected == cmode = "reconnect" /\ cpc \in {"Returned", "Run"} /\ ~cerr

\* C6 (reconnection gives a new identity): after a Reconnect that succeeded, the
\* identity the new handshake announced differs from the identity of the dropped
\* session, and once the new session's port listener accepts, with the session's
\* connection open, a visitor's request for the new identity is relayed on the new
\* session's connection.
C6_ReconnectRoutesNewIdentity ==
    Reconnected =>
        /\ cdomain # olddomain
        /\ ConnOpen(cconn) /\ listener[cconn] = "listening" => Forward(cdomain) = cconn

\* C7 (backoff bound): the waits Reconnect has slept are 1, 2, 4, 8, 16 seconds in
\* that order, one for each failed attempt; an attempt is made only while fewer than
\* five have failed; after the fifth failure Reconnect has returned with the error.
C7_BackoffBound ==
    /\ Len(waits) = attempt
    /\ attempt <= MaxAttempts
    /\ \A k \in 1..Len(waits) : waits[k] = 2 ^ (k - 1)
    /\ \A k \in 1..(Len(waits) - 1) : waits[k] <= waits[k + 1]
    /\ cpc \in {"Connect", "SendLocalPort", "WaitForDomain", "Backoff"} /\ cmode = "reconnect"
         => attempt < MaxAttempts
    /\ attempt = MaxAttempts => cpc \in {"Returned", "Fatal"} /\ cerr

\* all five attempts have failed and the five waits have been slept
C7_FiveFailedAttempts == cmode = "reconnect" /\ Len(waits) = MaxAttempts

\* C8 (exhausted retries are fatal): the client is in the fatal state of the reconnect
\* path only if all five attempts failed; once Reconnect has returned an error the
\* client's next step is the fatal exit, never the message loop; a Reconnect that
\* returned nil is followed by the message loop, never by the fatal exit; the fatal
\* state is final.
C8_FatalIffExhausted ==
    /\ [](cpc = "Fatal" => attempt = MaxAttempts /\ Len(waits) = MaxAttempts /\ cerr)
    /\ [](cpc = "Returned" => (cerr <=> attempt = MaxAttempts))
    /\ [][cpc = "Returned" /\ cerr => cpc' \in {"Returned", "Fatal"}]_vars
    /\ [][cpc = "Returned" /\ ~cerr => cpc' \in {"Returned", "Run"}]_vars
    /\ [][cpc = "Fatal" => cpc' = "Fatal"]_vars

\* the client has ended in the fatal state after five failed attempts
C8_FatalReached == cpc = "Fatal" /\ Len(waits) = MaxAttempts

(***************************************************************************)
(* Properties of the registry of package tunnel.                           *)
(***************************************************************************)

\* C3 (release idempotence): a release that repeats the call before it (ReleasePort(port)
\* after ReleasePort(port), UnregisterHost(host) after UnregisterHost(host), Close after
\* Close) leaves activePorts, hostMap and nextPort as the first release left them, and it
\* returns no error.
C3_ReleaseIdempotent ==
    [][tRepeated' => UNCHANGED tunnelRegistry /\ tErr' = "none"]_tunnelVars

\* Close was called twice on a handler that held a port and a domain, while another port
\* was still marked active
C3_ClosedTwice ==
    /\ tRepeated
    /\ tLast # <<>>
    /\ tLast[1] = "Close"
    /\ tPort[tLast[2]] # 0
    /\ tDomain[tLast[2]] # <<>>
    /\ tActivePorts # {}
    /\ tPort[tLast[2]] \notin tActivePorts

(***************************************************************************)
(* Properties of the multiplexed tunnel.                                   *)
(***************************************************************************)

\* the sessions that are registered and live
LiveSessions == {s \in MuxSessions : mPc[s] = "Registered" /\ mLive[s] = "open"}

\* C2 (identity uniqueness): no two sessions that are registered and live at the same
\* moment have the same public identity, and the sessions map leads from the identity of
\* a live registered session to that session.
C2_IdentityUniqueness ==
    /\ \A s, t \in LiveSessions : s # t => mId[s] # mId[t]
    /\ \A s \in LiveSessions : mId[s] \in DOMAIN mSessions /\ mSessions[mId[s]] = s

\* stream x is ended in this step, at the client's end or at the server's end
StreamEnds(x) ==
    \/ xCli'[x] # xCli[x] /\ xCli'[x] \in {"dialfail", "done"}
    \/ xSrv'[x] # xSrv[x] /\ xSrv'[x] = "done"

\* stream y can carry the next chunk of its transfer
CanRelay(y) ==
    /\ xCli[y] = "relay"
    /\ xSrv[y] = "relay"
    /\ mLive[xSess[y]] = "open"
    /\ xResp[y] < RespLen

\* C9 (stream isolation): a step that ends one stream (its dial to the local service
\* fails, its local service fails, its visitor goes away, its copy ends) leaves every
\* session open and its client accepting, and leaves every other stream as it was; a
\* stream that is relaying on an open session can carry its next chunk, and a stream
\* that waits to be accepted on an open session is accepted, whatever has happened to
\* the other streams.
C9_StreamIsolation ==
    /\ [][\A x \in Streams : StreamEnds(x) =>
             /\ mLive' = mLive
             /\ mCli' = mCli
             /\ mSessions' = mSessions
             /\ \A y \in Streams \ {x} :
                    xCli'[y] = xCli[y] /\ xSrv'[y] = xSrv[y] /\ xResp'[y] = xResp[y]]_muxVars
    /\ [](\A y \in Streams : CanRelay(y) => ENABLED RelayChunk(y))
    /\ [](\A y \in Streams :
             xCli[y] = "pending" /\ mCli[xSess[y]] = "Accepting" /\ mLive[xSess[y]] = "open"
               => ENABLED ClientAccept(y))

\* the dial of one stream has failed, and another stream of the same session is in the
\* middle of its transfer and can go on, on the open session whose client is accepting
C9_DialFailedBesideTransfer ==
    \E x, y \in Streams :
        /\ x # y
        /\ xSess[x] = xSess[y]
        /\ xCli[x] = "dialfail"
        /\ xSrv[x] = "done"
        /\ CanRelay(y)
        /\ xResp[y] > 0
        /\ ENABLED RelayChunk(y)
        /\ mLive[xSess[y]] = "open"
        /\ mCli[xSess[y]] = "Accepting"

(***************************************************************************)
(* Properties of the transport adapter.                                    *)
(***************************************************************************)

\* C10 (ordering and reassembly): the bytes returned by the Reads so far, followed by the
\* bytes left in readBuf and the payloads of the binary messages still to be read, are
\* the bytes sent, in the order sent: no byte is lost, doubled or out of place, whatever
\* the sizes of the messages and of the callers' buffers; and a Read returns the count of
\* the bytes it hands over.
C10_ReadReassembles ==
    /\ [](rOut \o rReadBuf \o Payloads(rFrames) \o Payloads(rSending)
             = [i \in 1..rTotal |-> i])
    /\ [][rOut' # rOut => /\ Len(rOut') = Len(rOut) + rRet'[1]
                           /\ rRet'[2] = "nil"
                           /\ rRet'[1] <= MaxBuf]_readVars
    /\ [][rOut' = rOut \/ rRet'[1] > 0]_readVars

\* every byte sent has been returned, a message was larger than the caller's buffer and
\* the bytes came from more than one message
C10_AllBytesReadAcrossSplit ==
    /\ rSplit
    /\ rTotal = MaxFrames * MaxFrameLen
    /\ Len(rOut) = rTotal
    /\ rSending = <<>> /\ rFrames = <<>> /\ rReadBuf = <<>>

(***************************************************************************)
(* Properties of the visitor's relay.                                      *)
(***************************************************************************)

\* nothing of the visitor's bytes is under way any more
RelayDrained == vIn = <<>> /\ vUp = <<>> /\ vDown = <<>>

\* C11 (round trip): with the tunnel open and the echoing local service reachable (no
\* failure has happened), once nothing is under way any more the local service has
\* received exactly the bytes the visitor sent and the visitor has received exactly
\* those bytes back.
C11_RoundTrip ==
    vFaults = 0 /\ RelayDrained => vLocal = Sent /\ vOut = Sent

(***************************************************************************)
(* Further properties of the port-registry server.                         *)
(***************************************************************************)

\* C15 (route publication failure does not end the session): a failure of
\* configureCaddy during the handshake never makes handleTunnel return: no handler is
\* at the return that follows "Failed to configure Caddy", where the deferred
\* conn.Close() has run and startPortListener was never started.
C15_PublicationFailureKeepsSession == \A h \in Handlers : pc[h] # "RetCaddy"

\* C19 (server survives client failures): no sequence of events caused by clients,
\* concurrent handshakes included, terminates the server process.
C19_ServerSurvives == ~crashed

\* positions of a handleTunnel whose statement hostMap[subdomain] = serverPort is done
\* and that has not returned
Registered == {"Send", "Caddy", "Listen", "Wait"}

\* C21 (registry consistency): every identity in hostMap maps to a port marked active,
\* no two identities map to the same port, and the port of every fully registered live
\* session has its identity in hostMap.
C21_RegistryConsistency ==
    /\ \A d \in DOMAIN hostMap : hostMap[d] \in activePorts
    /\ \A d, e \in DOMAIN hostMap : hostMap[d] = hostMap[e] => d = e
    /\ \A h \in Handlers :
           ~crashed /\ pc[h] \in Registered =>
               /\ Subdomain(serverPort[h]) \in DOMAIN hostMap
               /\ hostMap[Subdomain(serverPort[h])] = serverPort[h]

\* C22 (single locking discipline): every access of a registry map happens while
\* portMutex is held: a handler inside its write of hostMap holds portMutex, so no two
\* handlers are inside a write of the map at the same time.
C22_SingleLockingDiscipline ==
    /\ \A h \in writing : portMutex = h
    /\ Cardinality(writing) <= 1

\* C23 (teardown cancels every derived context): after handleTunnel has returned, the
\* port listener started for its session eventually terminates and its listening port
\* is closed (or the whole process has ended).
C23_TeardownStopsListener ==
    \A h \in 1..NumConns :
        (pc[h] \in Returned) ~> (crashed \/ listener[h] \notin {"starting", "listening"})

\* the client has completed a handshake on its connection
ClientReady == cconn # 0 /\ cpc \in {"Run", "Returned"} /\ ~cerr

\* positions of a handleTunnel that has sent the public domain and has not returned
AfterSend == {"Caddy", "Listen", "Wait"}

\* C29 (handshake agreement): when the client has completed the handshake, the public
\* domain it received is the one under which the server registered its session, and
\* the server has registered and announced it; the two ends never wait for each other:
\* while the client waits for the domain, a server that waits for the local port has
\* that message at hand, and a server that is past its announcement has sent it.
C29_HandshakeAgreement ==
    /\ ClientReady =>
           /\ cdomain = Subdomain(serverPort[cconn])
           /\ pc[cconn] \in AfterSend \cup Returned
    /\ cpc = "WaitForDomain" /\ pc[cconn] = "ReadPort" => inbox[cconn]
    /\ cpc = "WaitForDomain" /\ pc[cconn] \in AfterSend => outbox[cconn] # <<>>

\* both ends have completed the handshake of a reconnection
C29_BothReadyAfterReconnect ==
    ClientReady /\ cmode = "reconnect" /\ pc[cconn] = "Wait" /\ ~crashed

\* C30 (lock not held across I/O): portMutex is held only for the scan-and-mark
\* step. A handler that holds portMutex is between its Lock and its Unlock (it has
\* scanned and not yet marked); a handler that reads or writes its connection, calls
\* the edge router, starts its listener, waits for its context or waits for the lock
\* does not hold portMutex.
C30_LockNotHeldAcrossIO ==
    /\ portMutex \in 0..NumConns
    /\ \A h \in 1..NumConns : portMutex = h => pc[h] = "Commit"

\* one handler holds portMutex for its scan-and-mark step while another handler has
\* read its client's port and waits for the lock
C30_HeldWhileAnotherWaits ==
    \E h, g \in 1..NumConns :
        /\ h # g
        /\ portMutex = h /\ pc[h] = "Commit"
        /\ pc[g] = "Lock"
        /\ ~crashed

\* C32 (route retraction): a route that the server has published to the edge router
\* for a session is eventually retracted after the session has ended (its handleTunnel
\* has returned): no route of an ended session stays published forever.
C32_RouteRetracted ==
    \A h \in 1..NumConns :
        (pc[h] \in Returned /\ Subdomain(serverPort[h]) \in routes)
            ~> (Subdomain(serverPort[h]) \notin routes)

\* C33 (client stays connected after a successful reconnect): once the reconnect
\* loop has succeeded, the client is not shut down by an event of the old connection:
\* when main returns because connCtx is cancelled, the connection whose failed ping
\* cancelled it is the one that conn refers to, not an earlier one.
C33_StaysConnectedAfterReconnect ==
    kMain = "returned" => kCancelBy = kConn

\* C34 (identity is usable once announced): whenever a client has received its public
\* identity and its session is open, a visitor's request for that identity finds the
\* session: the id is a key of sessions and maps to that session. The server never
\* announces an identity before it is registered.
C34_AnnouncedIsRegistered ==
    \A c \in MuxSessions :
        (mInfo[c] # <<>> /\ mLive[c] = "open")
            => (mInfo[c] \in DOMAIN mSessions /\ mSessions[mInfo[c]] = c)

\* C35 (cleanup removes only its own entry): an entry that leaves the sessions map
\* refers to a session that has closed; the cleanup goroutine of one session never
\* removes the entry of another session that is still open, also when both sessions
\* were given the same id.
C35_CleanupRemovesOwnEntry ==
    [][\A id \in DOMAIN mSessions :
          id \notin DOMAIN mSessions' => mLive[mSessions[id]] = "closed"]_allVars

\* session h takes a step of its release: ReleasePort in Close, or the end of
\* UnregisterHost in Close
ReleaseStep(h) ==
    \/ gPc[h] \in {"Up", "Closed"} /\ gPc'[h] = "Released"
    \/ gPc[h] = "Unregistering" /\ gPc'[h] = "Closed"

\* C36 (release affects only its own session): a release step of one session (Close
\* with its ReleasePort and UnregisterHost, also repeated or late) leaves nextPort and
\* every other session's port and identity entries as they were, the process running:
\* it never frees a port that another session holds.
C36_ReleaseOwnEntriesOnly ==
    [][\A h \in Sessions :
          ReleaseStep(h) =>
              /\ gNextPort' = gNextPort
              /\ gCrashed' = gCrashed
              /\ \A o \in Sessions \ {h} :
                    /\ gPort[o] \in gActivePorts => gPort[o] \in gActivePorts'
                    /\ gDomain[o] \in DOMAIN gHostMap =>
                          /\ gDomain[o] \in DOMAIN gHostMap'
                          /\ gHostMap'[gDomain[o]] = gHostMap[gDomain[o]]]_allVars

\* C37 (single reader per connection): at most one goroutine is blocked in or performs
\* a read of the session's WebSocket connection at any time: no two per-visitor
\* goroutines of the server are inside wsConn.ReadMessage() together.
C37_SingleReader == Cardinality({v \in Visitors : InReadMessage(v)}) <= 1

(***************************************************************************)
(* Properties of the liveness probing.                                     *)
(***************************************************************************)

\* the prober of end e owes a ping: its period has passed, its context is not
\* cancelled, its process runs and the connection is open
Owes(e) == pDue[e] /\ ~pCancelled[e] /\ Running(e) /\ pConn = "open"

\* the ping goroutines of handleTunnel and of main of client.go write their ping
\* after every period
WorkingProbersProbe ==
    /\ Owes("server") ~> ~Owes("server")
    /\ (pKind = "main" /\ Owes("client")) ~> ~Owes("client")

\* C12 (periodic probing): once the prober of an end is started, a ping is written to
\* the connection after every 30-second period until the context is cancelled: a
\* prober that owes a ping eventually writes it, or its context is cancelled or the
\* session ends.
C12_PeriodicProbing == \A e \in Ends : Owes(e) ~> ~Owes(e)

\* a ping has arrived at end e of a live session and is not answered
Unanswered(e) == pPing[e] /\ Running(e) /\ pConn = "open"

\* the client, which reads its connection all the time, answers every ping
ClientAnswers == Unanswered("client") ~> ~Unanswered("client")

\* C13 (automatic acknowledgment): every ping that arrives at an end of a live session
\* is eventually answered with a pong, whether or not a visitor connection is being
\* relayed on the session.
C13_AutomaticAcknowledgment == \A e \in Ends : Unanswered(e) ~> ~Unanswered(e)

\* C14 (dead-transport detection): when the client has stopped answering,
\* handleTunnel eventually returns (and closes the connection).
C14_DeadTransportDetected == (pPeer = "silent") ~> (pSrv = "Returned" /\ pConn = "closed")

(***************************************************************************)
(* Further properties of the tunnel handler's port registry.               *)
(***************************************************************************)

\* the number of later calls of AssignPort and ReleasePort that are looked at
LookAhead == 3

RECURSIVE LaterPorts(_, _, _)
\* the ports that AssignPort returns in some sequence of at most depth calls of
\* AssignPort and ReleasePort, started with the registry active and nextPort next
LaterPorts(active, next, depth) ==
    IF depth = 0
    THEN {}
    ELSE LET port == ScanIn(active, next)
         IN  {port}
                 \cup LaterPorts(active \cup {port}, port + 1, depth - 1)
                 \cup UNION {LaterPorts(ReleasePortIn(active, q), next, depth - 1) :
                                q \in active}

\* the ports that were assigned and have been released
Freed == {p \in TunnelPorts : p < tNextPort /\ p \notin tActivePorts}

\* C20 (release frees the port for reuse): a port that has been released can be
\* returned again by a later allocation: some sequence of later calls of AssignPort
\* and ReleasePort makes AssignPort return it.
C20_ReleasedPortReusable ==
    \A p \in Freed : p \in LaterPorts(tActivePorts, tNextPort, LookAhead)

\* C31 (allocated ports stay in range): every port an allocation has returned is at
\* least the floor 10000 and at most 65535, and an allocation that returns without an
\* error has returned such a port: past the top of the range it fails instead.
C31_PortsInRange ==
    /\ \A h \in TunnelHandlers : tPort[h] # 0 => tPort[h] \in PortFloor..PortMax
    /\ \A p \in tActivePorts : p \in PortFloor..PortMax

(***************************************************************************)
(* Further properties of the relay of one visitor connection.              *)
(***************************************************************************)

\* C16 (dial failure is signalled): after the client has failed to dial the local
\* service for a message, the server's goroutine that waits for the visitor's
\* response eventually stops waiting: its read of the connection ends.
C16_DialFailureSignalled == vDialFailed ~> (vB = "done")

\* C18 (no stream outlives its connection): after the session's WebSocket connection
\* has failed, the visitor relay of the session is eventually closed: the goroutine
\* that reads the visitor's connection returns, which closes that connection, and the
\* goroutine that reads the WebSocket connection returns.
C18_RelayEndsWithConnection == (vWs = "closed") ~> (vA = "done" /\ vB = "done")

(***************************************************************************)
(* Further properties of the streams of the multiplexed server.            *)
(***************************************************************************)

\* C17 (bridge teardown on either direction): once the direction from the stream to
\* the local service has ended in handleStream, because the server has closed its end
\* of the stream, handleStream eventually returns and closes the stream and the local
\* connection.
C17_BridgeTornDown ==
    \A x \in 1..MuxStreams : (xCli[x] = "relay" /\ xSrv[x] = "done") ~> (xCli[x] = "done")

\* C38 (opened streams are closed): every stream that the proxy handler has opened for
\* a visitor's request is eventually closed, whichever way its handling ends (Hijack
\* fails, forwarding the request fails, a relay direction ends), the visitor's
\* connection with it; the end of the whole session, which closes its streams, counts.
C38_OpenedStreamsClosed ==
    \A x \in 1..MuxStreams :
        (xSess[x] # 0)
            ~> (xSrv[x] = "done" \/ (xSess[x] # 0 /\ mLive[xSess[x]] = "closed"))

(***************************************************************************)
(* Properties of a session with several visitors.                          *)
(***************************************************************************)

\* C24 (serialized writers): at most one execution context is inside a write to the
\* session's WebSocket connection at any time.
C24_SerializedWriters == Cardinality(wInside) <= 1

\* C25 (non-binary frame is a protocol violation): a step in which the server's read
\* of the connection takes a frame that is not binary fails the connection; the frame
\* is not skipped.
C25_NonBinaryFailsConnection ==
    [][(wDown # <<>> /\ Head(wDown)[1] # "binary" /\ wDown' = Tail(wDown))
          => wWs' = "closed"]_allVars

\* a message of visitor v waits for the client
InUp(v) == \E i \in 1..Len(wUp) : wUp[i] = v

\* C26 (no head-of-line blocking on the client): a message of a visitor whose request
\* the local service answers is eventually taken up by the client, also while the
\* local service does not answer another visitor.
C26_NoHeadOfLineBlocking ==
    \A v \in Visitors : (v \notin wMute /\ InUp(v)) ~> (~InUp(v) \/ wWs = "closed")

\* C27 (per-visitor delivery): every answer is written to the connection of the
\* visitor whose request it answers.
C27_PerVisitorDelivery ==
    \A v \in Visitors : \A i \in 1..Len(wGot[v]) : wGot[v][i] = v

(***************************************************************************)
(* Properties of the TCP control channel.                                  *)
(***************************************************************************)

\* C28 (local port is the first payload): the bytes of the local port are received by
\* the handshake read of handleClient: the yamux session never consumes one of them,
\* and the handshake read returns bytes of the local port only.
C28_PortReachesHandshake ==
    /\ \A i \in 1..Len(yMux) : yMux[i] # "p"
    /\ \A i \in 1..Len(yHandshake) : yHandshake[i] = "p"

(***************************************************************************)
(* Properties of a tunnel Handler that shuts down.                         *)
(***************************************************************************)

\* Start has returned and Close has run to its end
ShutDown == hStart = "returned" /\ hWs = "closed"

\* C39: once a tunnel Handler has shut down (Start has returned, after a read
\* error or because its context was cancelled, and Close has been called), its
\* readMessages goroutine eventually terminates: it does not stay blocked in a
\* send on messageChan or errorChan
C39_ReaderTerminates == ShutDown ~> (hReader = "done")

====
